---- MODULE Spec2Model ----
(***************************************************************************)
(* Order lifecycle and reconciliation engine of op-op.                     *)
(*                                                                         *)
(*   src/web/task_manager.py   Task, TaskManager (the Task Supervisor)     *)
(*   src/web/runners.py        run_market_maker, run_sell_shares,          *)
(*                             run_split_and_sell (the strategies)         *)
(*   src/opinion_client.py     OpinionTradeClient (the venue gateway)      *)
(*                                                                         *)
(* Spec     : the supervisor with a registry of tasks; the strategy that   *)
(*            start_task launches is an arbitrary callable that logs,      *)
(*            returns or raises.                                           *)
(* SpecRun  : one task whose strategy is one of the three runners, step by *)
(*            step, against a venue whose calls may fail.                  *)
(***************************************************************************)
EXTENDS Integers, Sequences, FiniteSets, TLC

VARIABLES
    tasks,      \* TaskManager.tasks: task id -> Task
    starting,   \* start_task calls that left the locked section and have not yet started their thread
    launched,   \* per task id: number of threading.Thread.start() calls
    rpc,        \* per task id: position of wrapped_runner
    exc,        \* per task id: message of the exception that escaped the runner
    lastCall,   \* the last start_task / stop_task call that returned, and its result
    startTrue,  \* per task id: number of start_task calls that returned True
    stopTrue,   \* per task id: whether a stop_task call returned True
    logCalls,   \* per task id: number of _log calls made
    run,        \* the locals of the running strategy (SpecRun runs one task)
    venue,      \* the venue behind the gateway: its orders and the cancel requests it received
    calc        \* the helper function under evaluation, its arguments and its result

vars == <<tasks, starting, launched, rpc, exc, lastCall, startTrue, stopTrue, logCalls, run, venue, calc>>

----------------------------------------------------------------------------
(* Task ids (uuid4 prefixes), task types and messages the model draws from *)

TaskIds == {"task_a", "task_b"}

TaskTypes == {"market_maker", "sell_shares", "split_and_sell"}

\* messages of exceptions that escape a runner (float(), re.search, ...)
ExcMessages == {"could not convert string to float"}

\* messages a runner passes to its logger
RunnerMessages == {"Starting"}

\* number of logger calls a runner makes in the model
MaxLogCalls == 1

\* TaskManager._log keeps the last 5000 entries
MAX_LOGS == 5000

----------------------------------------------------------------------------
(* class TaskStatus *)

PENDING == "pending"
RUNNING == "running"
STOPPING == "stopping"
STOPPED == "stopped"
COMPLETED == "completed"
ERROR == "error"

TaskStatus == {PENDING, RUNNING, STOPPING, STOPPED, COMPLETED, ERROR}

\* Optional[str]: <<>> is None, <<s>> is the string s
None == <<>>
Some(s) == <<s>>

\* @dataclass Task as create_task builds it
Task(id, type, config) ==
    [ id         |-> id,
      type       |-> type,
      config     |-> config,
      status     |-> PENDING,
      thread     |-> FALSE,      \* a Thread object has been assigned
      stop_event |-> FALSE,      \* threading.Event: is_set()
      logs       |-> <<>>,
      error      |-> None,
      started_at |-> FALSE,      \* a timestamp has been recorded
      stopped_at |-> FALSE ]

\* the config the supervisor passes through untouched
DefaultConfig == [interval |-> 1]

----------------------------------------------------------------------------
(* TaskManager._log *)

\* log_entry = f"[{timestamp}] {message}" (the clock reading is abstracted to ts)
LogEntry(message) == "[ts] " \o message

\* task.logs = task.logs[:5000]
FirstN(s, n) == IF Len(s) > n THEN SubSeq(s, 1, n) ELSE s

\* task.logs = task.logs[-5000:]
LastN(s, n) == IF Len(s) > n THEN SubSeq(s, Len(s) - n + 1, Len(s)) ELSE s

\* with self._lock: task = self.tasks.get(task_id); if task: append, truncate
Log(tk, task_id, message) ==
    IF task_id \in DOMAIN tk
    THEN [tk EXCEPT ![task_id].logs = LastN(Append(@, LogEntry(message)), MAX_LOGS)]
    ELSE tk

----------------------------------------------------------------------------
(* TaskManager API *)

Returned(op, id, val) == [op |-> op, id |-> id, val |-> val, flip |-> 1 - lastCall.flip]

\* create_task: a fresh id, the Task registered under the lock
create_task(id, type, config) ==
    /\ id \notin DOMAIN tasks
    /\ tasks' = tasks @@ (id :> Task(id, type, config))
    /\ UNCHANGED <<calc, starting, launched, rpc, exc, lastCall, startTrue, stopTrue, logCalls, run, venue>>

\* start_task that tests only that the task exists
start_task_locked_any_status(id) ==
    IF id \notin DOMAIN tasks
    THEN /\ lastCall' = Returned("start", id, FALSE)
         /\ UNCHANGED <<calc, tasks, starting, launched, rpc, exc, startTrue, stopTrue, logCalls, run, venue>>
    ELSE /\ tasks' = [tasks EXCEPT ![id].status = RUNNING,
                                   ![id].started_at = TRUE,
                                   ![id].stop_event = FALSE]
         /\ starting' = [starting EXCEPT ![id] = @ + 1]
         /\ UNCHANGED <<calc, launched, rpc, exc, lastCall, startTrue, stopTrue, logCalls, run, venue>>

\* start_task that leaves the status PENDING in its locked section
start_task_locked_keeps_pending(id) ==
    IF id \notin DOMAIN tasks \/ tasks[id].status # PENDING
    THEN /\ lastCall' = Returned("start", id, FALSE)
         /\ UNCHANGED <<calc, tasks, starting, launched, rpc, exc, startTrue, stopTrue, logCalls, run, venue>>
    ELSE /\ tasks' = [tasks EXCEPT ![id].started_at = TRUE,
                                   ![id].stop_event = FALSE]
         /\ starting' = [starting EXCEPT ![id] = @ + 1]
         /\ UNCHANGED <<calc, launched, rpc, exc, lastCall, startTrue, stopTrue, logCalls, run, venue>>

\* start_task, lines 65-73: the locked check and the switch to RUNNING
start_task_locked(id) ==
    IF id \notin DOMAIN tasks \/ tasks[id].status # PENDING
    THEN /\ lastCall' = Returned("start", id, FALSE)
         /\ UNCHANGED <<calc, tasks, starting, launched, rpc, exc, startTrue, stopTrue, logCalls, run, venue>>
    ELSE /\ tasks' = [tasks EXCEPT ![id].status = RUNNING,
                                   ![id].started_at = TRUE,
                                   ![id].stop_event = FALSE]
         /\ starting' = [starting EXCEPT ![id] = @ + 1]
         /\ UNCHANGED <<calc, launched, rpc, exc, lastCall, startTrue, stopTrue, logCalls, run, venue>>

\* start_task that clears the stop event after it released the lock
start_task_thread_clears(id) ==
    /\ starting[id] > 0
    /\ starting' = [starting EXCEPT ![id] = @ - 1]
    /\ tasks' = [tasks EXCEPT ![id].thread = TRUE, ![id].stop_event = FALSE]
    /\ launched' = [launched EXCEPT ![id] = @ + 1]
    /\ rpc' = [rpc EXCEPT ![id] = "run"]
    /\ startTrue' = [startTrue EXCEPT ![id] = @ + 1]
    /\ lastCall' = Returned("start", id, TRUE)
    /\ UNCHANGED <<calc, exc, stopTrue, logCalls, run, venue>>

\* start_task, lines 96-100: the thread is created and started, True is returned
start_task_thread(id) ==
    /\ starting[id] > 0
    /\ starting' = [starting EXCEPT ![id] = @ - 1]
    /\ tasks' = [tasks EXCEPT ![id].thread = TRUE]
    /\ launched' = [launched EXCEPT ![id] = @ + 1]
    /\ rpc' = [rpc EXCEPT ![id] = "run"]
    /\ startTrue' = [startTrue EXCEPT ![id] = @ + 1]
    /\ lastCall' = Returned("start", id, TRUE)
    /\ UNCHANGED <<calc, exc, stopTrue, logCalls, run, venue>>

\* stop_task that tests only that the task exists
stop_task_any_status(id) ==
    IF id \notin DOMAIN tasks
    THEN /\ lastCall' = Returned("stop", id, FALSE)
         /\ UNCHANGED <<calc, tasks, starting, launched, rpc, exc, startTrue, stopTrue, logCalls, run, venue>>
    ELSE /\ tasks' = [tasks EXCEPT ![id].status = STOPPING,
                                   ![id].stop_event = TRUE]
         /\ stopTrue' = [stopTrue EXCEPT ![id] = TRUE]
         /\ lastCall' = Returned("stop", id, TRUE)
         /\ UNCHANGED <<calc, starting, launched, rpc, exc, startTrue, logCalls, run, venue>>

\* stop_task with one threading.Event shared by all Task objects
\* (stop_event: threading.Event = threading.Event() instead of default_factory)
stop_task_shared_event(id) ==
    IF id \notin DOMAIN tasks \/ tasks[id].status # RUNNING
    THEN /\ lastCall' = Returned("stop", id, FALSE)
         /\ UNCHANGED <<calc, tasks, starting, launched, rpc, exc, startTrue, stopTrue, logCalls, run, venue>>
    ELSE /\ tasks' = [t \in DOMAIN tasks |->
                        IF t = id
                        THEN [tasks[t] EXCEPT !.status = STOPPING, !.stop_event = TRUE]
                        ELSE [tasks[t] EXCEPT !.stop_event = TRUE]]
         /\ stopTrue' = [stopTrue EXCEPT ![id] = TRUE]
         /\ lastCall' = Returned("stop", id, TRUE)
         /\ UNCHANGED <<calc, starting, launched, rpc, exc, startTrue, logCalls, run, venue>>

\* stop_task that sets the event and leaves the status RUNNING
stop_task_event_only(id) ==
    IF id \notin DOMAIN tasks \/ tasks[id].status # RUNNING
    THEN /\ lastCall' = Returned("stop", id, FALSE)
         /\ UNCHANGED <<calc, tasks, starting, launched, rpc, exc, startTrue, stopTrue, logCalls, run, venue>>
    ELSE /\ tasks' = [tasks EXCEPT ![id].stop_event = TRUE]
         /\ stopTrue' = [stopTrue EXCEPT ![id] = TRUE]
         /\ lastCall' = Returned("stop", id, TRUE)
         /\ UNCHANGED <<calc, starting, launched, rpc, exc, startTrue, logCalls, run, venue>>

\* stop_task
stop_task(id) ==
    IF id \notin DOMAIN tasks \/ tasks[id].status # RUNNING
    THEN /\ lastCall' = Returned("stop", id, FALSE)
         /\ UNCHANGED <<calc, tasks, starting, launched, rpc, exc, startTrue, stopTrue, logCalls, run, venue>>
    ELSE /\ tasks' = [tasks EXCEPT ![id].status = STOPPING,
                                   ![id].stop_event = TRUE]
         /\ stopTrue' = [stopTrue EXCEPT ![id] = TRUE]
         /\ lastCall' = Returned("stop", id, TRUE)
         /\ UNCHANGED <<calc, starting, launched, rpc, exc, startTrue, logCalls, run, venue>>

----------------------------------------------------------------------------
(* wrapped_runner, the body of the task's thread *)

\* wrapped_runner that writes COMPLETED without looking at the status
wrapped_runner_completed_always(id) ==
    /\ rpc[id] = "returned"
    /\ tasks' = [tasks EXCEPT ![id].status = COMPLETED]
    /\ rpc' = [rpc EXCEPT ![id] = "finally"]
    /\ UNCHANGED <<calc, starting, launched, exc, lastCall, startTrue, stopTrue, logCalls, run, venue>>

\* the runner returned: with self._lock, STOPPING -> STOPPED, anything else -> COMPLETED
wrapped_runner_completed(id) ==
    /\ rpc[id] = "returned"
    /\ tasks' = [tasks EXCEPT ![id].status =
                    IF @ = STOPPING THEN STOPPED ELSE COMPLETED]
    /\ rpc' = [rpc EXCEPT ![id] = "finally"]
    /\ UNCHANGED <<calc, starting, launched, exc, lastCall, startTrue, stopTrue, logCalls, run, venue>>

\* wrapped_runner that keeps a STOPPING task out of ERROR and records no message for it
wrapped_runner_error_unless_stopping(id) ==
    /\ rpc[id] = "raised"
    /\ tasks' = IF tasks[id].status = STOPPING
                THEN [tasks EXCEPT ![id].status = STOPPED]
                ELSE [tasks EXCEPT ![id].status = ERROR, ![id].error = Some(exc[id])]
    /\ rpc' = [rpc EXCEPT ![id] = "errlog"]
    /\ UNCHANGED <<calc, starting, launched, exc, lastCall, startTrue, stopTrue, logCalls, run, venue>>

\* except Exception as e: with self._lock, status = ERROR, error = str(e)
wrapped_runner_error(id) ==
    /\ rpc[id] = "raised"
    /\ tasks' = [tasks EXCEPT ![id].status = ERROR,
                              ![id].error = Some(exc[id])]
    /\ rpc' = [rpc EXCEPT ![id] = "errlog"]
    /\ UNCHANGED <<calc, starting, launched, exc, lastCall, startTrue, stopTrue, logCalls, run, venue>>

\* self._log(task_id, "ERROR", f"Task error: {e}")
wrapped_runner_errlog(id) ==
    /\ rpc[id] = "errlog"
    /\ tasks' = Log(tasks, id, "Task error: " \o exc[id])
    /\ rpc' = [rpc EXCEPT ![id] = "finally"]
    /\ UNCHANGED <<calc, starting, launched, exc, lastCall, startTrue, stopTrue, logCalls, run, venue>>

\* finally: task.stopped_at = ...
wrapped_runner_finally(id) ==
    /\ rpc[id] = "finally"
    /\ tasks' = [tasks EXCEPT ![id].stopped_at = TRUE]
    /\ rpc' = [rpc EXCEPT ![id] = "done"]
    /\ UNCHANGED <<calc, starting, launched, exc, lastCall, startTrue, stopTrue, logCalls, run, venue>>

----------------------------------------------------------------------------
(* The runner argument of start_task, as the supervisor sees it: it calls  *)
(* its logger, and returns or raises.                                      *)

\* logger(message) -> self._log(task_id, level, message)
runner_logs(id, message) ==
    /\ rpc[id] = "run"
    /\ logCalls[id] < MaxLogCalls
    /\ tasks' = Log(tasks, id, message)
    /\ logCalls' = [logCalls EXCEPT ![id] = @ + 1]
    /\ UNCHANGED <<calc, starting, launched, rpc, exc, lastCall, startTrue, stopTrue, run, venue>>

runner_returns(id) ==
    /\ rpc[id] = "run"
    /\ rpc' = [rpc EXCEPT ![id] = "returned"]
    /\ UNCHANGED <<calc, tasks, starting, launched, exc, lastCall, startTrue, stopTrue, logCalls, run, venue>>

runner_raises(id, message) ==
    /\ rpc[id] = "run"
    /\ rpc' = [rpc EXCEPT ![id] = "raised"]
    /\ exc' = [exc EXCEPT ![id] = message]
    /\ UNCHANGED <<calc, tasks, starting, launched, lastCall, startTrue, stopTrue, logCalls, run, venue>>

----------------------------------------------------------------------------
(* The strategy's locals and the venue, before any strategy ran *)

\* the dict of tracked Legs (orders / sell_orders), empty
NoOrders == [k \in {} |-> 0]

\* no filtered best price: get_best_bid / get_best_ask returned None
NoPrice == 0

\* shares sold (hundredths of a share) and notional received (shares * price, in
\* units of 0.00001) of each side
NoSales == [yes |-> [shares |-> 0, usdt |-> 0], no |-> [shares |-> 0, usdt |-> 0]]

\* stats["current_step"], the sums over stats["steps"], the sums over every Leg
\* confirmed filled so far, and the totals of the final statistics once logged
NoStats == [current_step |-> NoSales, steps |-> NoSales, confirmed |-> NoSales,
            reported |-> FALSE, total |-> NoSales]

RunInit ==
    [ pc        |-> "start",
      orders    |-> NoOrders,   \* key -> Leg
      okeys     |-> <<>>,       \* the dict's keys in insertion order
      keys      |-> <<>>,       \* list(orders.keys()) still to examine in this cycle
      open_ids  |-> {},         \* open_ids of this cycle, as far as it will still be read
      retry     |-> 0,          \* retry of the fill confirmation
      absent    |-> 0,          \* confirmation queries of this Leg that returned a list without its id
      again     |-> {},         \* keys of the Legs whose id a confirmation query of this cycle listed again
      i         |-> 0,          \* seconds slept in the poll-interval wait
      new_price |-> NoPrice,    \* new_price of the reprice under way
      best      |-> NoPrice,    \* the filtered best price the reprice or the BUY fill under way read
      buy_price |-> [yes |-> NoPrice, no |-> NoPrice],
      stop_exit |-> FALSE,      \* the monitoring loop was left with the stop event set
      unlogged  |-> FALSE,      \* a venue call of the poll loop failed and no log call was made for it
      total     |-> [yes |-> 0, no |-> 0],    \* total_yes_available, total_no_available
      rem       |-> [yes |-> 0, no |-> 0],    \* yes_remaining, no_remaining
      to_sell   |-> [yes |-> 0, no |-> 0],    \* yes_to_sell, no_to_sell of the step
      step      |-> 1,          \* step of run_split_and_sell
      settled   |-> FALSE,      \* a poll showed both balances and the 10 s wait followed
      stats     |-> NoStats,    \* the statistics of run_split_and_sell
      filled    |-> {},         \* sides whose Leg of this step was confirmed filled
      slept     |-> 0 ]         \* tenths of a second slept since stop_event.is_set() was last read

\* the venue: the state of every order it accepted (by order id), and the
\* tracking numbers it was asked to cancel
VenueInit == [orders |-> <<>>, cancels |-> {}]

\* no helper function is under evaluation
CalcInit == [pc |-> "idle"]

----------------------------------------------------------------------------
(* The supervisor specification *)

\* TaskManager.__init__
\* the supervisor and the venue right after construction
Constructed ==
    /\ tasks = <<>>
    /\ starting = [id \in TaskIds |-> 0]
    /\ launched = [id \in TaskIds |-> 0]
    /\ rpc = [id \in TaskIds |-> "idle"]
    /\ exc = [id \in TaskIds |-> ""]
    /\ lastCall = [op |-> "none", id |-> "none", val |-> FALSE, flip |-> 0]
    /\ startTrue = [id \in TaskIds |-> 0]
    /\ stopTrue = [id \in TaskIds |-> FALSE]
    /\ logCalls = [id \in TaskIds |-> 0]
    /\ run = RunInit
    /\ venue = VenueInit

Init == Constructed /\ calc = CalcInit

CreateTask == \E id \in TaskIds, type \in TaskTypes : create_task(id, type, DefaultConfig)
StartTaskLocked == \E id \in TaskIds : start_task_locked(id)
StartTaskThread == \E id \in TaskIds : start_task_thread(id)
StopTask == \E id \in TaskIds : stop_task(id)
WrappedRunnerCompleted == \E id \in TaskIds : wrapped_runner_completed(id)
WrappedRunnerError == \E id \in TaskIds : wrapped_runner_error(id)
WrappedRunnerErrlog == \E id \in TaskIds : wrapped_runner_errlog(id)
WrappedRunnerFinally == \E id \in TaskIds : wrapped_runner_finally(id)
RunnerLogs == \E id \in TaskIds, m \in RunnerMessages : runner_logs(id, m)
RunnerReturns == \E id \in TaskIds : runner_returns(id)
RunnerRaises == \E id \in TaskIds, m \in ExcMessages : runner_raises(id, m)

Next ==
    \/ CreateTask
    \/ StartTaskLocked
    \/ StartTaskThread
    \/ StopTask
    \/ WrappedRunnerCompleted
    \/ WrappedRunnerError
    \/ WrappedRunnerErrlog
    \/ WrappedRunnerFinally
    \/ RunnerLogs
    \/ RunnerReturns
    \/ RunnerRaises

Spec == Init /\ [][Next]_vars

----------------------------------------------------------------------------
(* The venue as the strategies see it through OpinionTradeClient.          *)
(* Prices are in ticks of 0.001, amounts in thousandths of a currency      *)
(* unit; a quantity of shares is the exact fraction n/d.                   *)

\* orders the venue accepts in the model; every later placement is refused
MaxOrders == 2

\* the longest poll interval (seconds) a config asks for in the model
MaxInterval == 1

\* filtered best prices an order book shows
Prices == {500, 501}

MaybePrices == Prices \cup {NoPrice}

\* round(price +/- 0.001, 3): one tick
TICK == 1

\* shares * price >= 1.0, in thousandths
MIN_NOTIONAL == 1000

\* for retry in range(3)
VERIFY_RETRIES == 3

\* config values that float() rejects
NaN == -1

Shares(n, d) == [n |-> n, d |-> d]

\* shares * price >= 1.0
NotionalOk(shares, price) == shares.n * price >= MIN_NOTIONAL * shares.d

\* orderData.transNo of the order with orderData.orderId n
TransNo(n) == <<"T", n>>

OpenIds(v) == {n \in DOMAIN v.orders : v.orders[n] = "open"}

\* the venue accepts a placement: the new order rests
VenueCanPlace(v) == Len(v.orders) < MaxOrders
NewOrderId(v) == Len(v.orders) + 1
VenuePlaced(v) == [v EXCEPT !.orders = Append(@, "open")]

\* cancel_order: "ok" cancels and returns True, "fail" raises with nothing
\* cancelled, "lost_ack" cancels and raises (the acknowledgment is lost)
CancelOutcomes == {"ok", "fail", "lost_ack"}

VenueCancel(v, trans_no, outcome) ==
    [v EXCEPT !.cancels = @ \cup {trans_no},
              !.orders = [n \in DOMAIN @ |->
                            IF outcome # "fail" /\ TransNo(n) = trans_no /\ @[n] = "open"
                            THEN "cancelled" ELSE @[n]]]

\* one cancel_order call per Leg of legs, each with its own outcome
VenueCancelAll(v, legs, outcome) ==
    [v EXCEPT !.cancels = @ \cup {legs[k].trans_no : k \in DOMAIN legs},
              !.orders = [n \in DOMAIN @ |->
                            IF /\ @[n] = "open"
                               /\ \E k \in DOMAIN legs :
                                     legs[k].trans_no = TransNo(n) /\ outcome[k] # "fail"
                            THEN "cancelled" ELSE @[n]]]

\* the order ids of the Legs tracked under keys
LegIds(orders, keys) == {orders[k].order_id : k \in keys \cap DOMAIN orders}

Range(seq) == {seq[j] : j \in DOMAIN seq}

\* get_open_orders answered: the ids listed are open orders, and the listing may
\* lag; of the answer, only the ids among ids are ever looked up
Listings(v, ids) == SUBSET (OpenIds(v) \cap ids)

\* the venue matches a resting order
venue_fills(n) ==
    /\ n \in OpenIds(venue)
    /\ venue' = [venue EXCEPT !.orders[n] = "filled"]
    /\ UNCHANGED <<calc, tasks, starting, launched, rpc, exc, lastCall, startTrue, stopTrue, logCalls, run>>

----------------------------------------------------------------------------
(* What the three runners share *)

Leg(order_id, price, shares, type) ==
    [ order_id    |-> order_id,
      trans_no    |-> TransNo(order_id),
      price       |-> price,
      shares      |-> shares,
      sold_shares |-> 0,
      type        |-> type ]

Remove(orders, key) == [k \in DOMAIN orders \ {key} |-> orders[k]]

RemoveKey(okeys, key) == SelectSeq(okeys, LAMBDA k : k # key)

\* the Leg is left in the dict
KeepOrder(r, key) == r

\* del orders[key]
DelOrder(r, key) == [r EXCEPT !.orders = Remove(@, key), !.okeys = RemoveKey(@, key)]

\* orders[key] = leg
PutOrder(r, key, leg) ==
    [r EXCEPT !.orders = (key :> leg) @@ @,
              !.okeys = IF key \in DOMAIN r.orders THEN @ ELSE Append(@, key)]

\* the thread of task id is inside its runner, which is the runner of type
Runs(id, type) ==
    /\ id \in DOMAIN tasks
    /\ rpc[id] = "run"
    /\ tasks[id].type = type

\* stop_event.is_set()
StopSet(id) == tasks[id].stop_event

\* int(poll_interval)
IntervalTicks(id) == tasks[id].config.interval

\* one second, in tenths of a second
ONE_SECOND == 10

\* time.sleep(tenths / 10): the time slept since the stop signal was last read;
\* everything above one second is one value
Sleep(r, tenths) ==
    [r EXCEPT !.slept = IF @ + tenths > ONE_SECOND THEN ONE_SECOND + 1 ELSE @ + tenths]

\* stop_event.is_set() is read
Read(r) == [r EXCEPT !.slept = 0]

\* the runner returns to wrapped_runner
strategy_returns(id, r) ==
    /\ run' = [r EXCEPT !.pc = "done"]
    /\ rpc' = [rpc EXCEPT ![id] = "returned"]
    /\ UNCHANGED <<calc, tasks, starting, launched, exc, lastCall, startTrue, stopTrue, logCalls>>

\* an exception escapes the runner
strategy_raises(id, message) ==
    /\ run' = [run EXCEPT !.pc = "done"]
    /\ rpc' = [rpc EXCEPT ![id] = "raised"]
    /\ exc' = [exc EXCEPT ![id] = message]
    /\ UNCHANGED <<calc, tasks, starting, launched, lastCall, startTrue, stopTrue, logCalls>>

\* the runner goes on, with new locals
strategy_steps(r) ==
    /\ run' = r
    /\ UNCHANGED <<calc, tasks, starting, launched, rpc, exc, lastCall, startTrue, stopTrue, logCalls>>

\* the runner goes on, with new locals, after logger(message)
strategy_logs(id, r, message) ==
    /\ run' = r
    /\ tasks' = Log(tasks, id, message)
    /\ logCalls' = [logCalls EXCEPT ![id] = @ + 1]
    /\ UNCHANGED <<calc, starting, launched, rpc, exc, lastCall, startTrue, stopTrue>>

\* continue: on to the next key of this cycle
NextKey(r) ==
    [r EXCEPT !.keys = Tail(@), !.retry = 0, !.absent = 0, !.new_price = NoPrice, !.best = NoPrice,
              !.open_ids = @ \cap LegIds(r.orders, Range(Tail(r.keys)))]

\* the cycle's body is over (or was left by an exception): the locals of the cycle are dead
EndCycle(r, pc) ==
    [r EXCEPT !.pc = pc, !.keys = <<>>, !.open_ids = {},
              !.retry = 0, !.absent = 0, !.again = {}, !.i = 0, !.new_price = NoPrice,
              !.best = NoPrice]

----------------------------------------------------------------------------
(* run_market_maker *)

MMSide(key) == IF key \in {"yes_buy", "yes_sell"} THEN "yes" ELSE "no"

\* lines 81-171: client, config, URL, outcome, order books, buy prices
mm_setup(id) ==
    /\ Runs(id, "market_maker")
    /\ run.pc = "start"
    /\ LET cfg == tasks[id].config IN
       \/ \* get_client, the URL, the outcome or the order books failed: logged, return
          /\ strategy_returns(id, run)
          /\ venue' = venue
       \/ \* float(config.get("amount", 15)) raises
          /\ cfg.amount = NaN
          /\ strategy_raises(id, "could not convert string to float")
          /\ venue' = venue
       \/ /\ cfg.amount # NaN
          /\ \E yes_bid \in MaybePrices, no_bid \in MaybePrices :
                IF yes_bid = NoPrice \/ no_bid = NoPrice
                THEN strategy_returns(id, run)
                ELSE strategy_steps(
                        [run EXCEPT !.pc = "mm_place_yes",
                                    !.buy_price =
                                        IF cfg.mode = "spread"
                                        THEN [yes |-> yes_bid + TICK, no |-> no_bid + TICK]
                                        ELSE [yes |-> yes_bid, no |-> no_bid]])
          /\ venue' = venue

\* lines 176-212: the BUY order of one side, then "if not orders: return"
mm_place(id, side) ==
    /\ Runs(id, "market_maker")
    /\ run.pc = "mm_place_" \o side
    /\ LET cfg    == tasks[id].config
           other  == IF side = "yes" THEN "no" ELSE "yes"
           price  == run.buy_price[side]
           after(r) ==
               IF side = "yes"
               THEN strategy_steps([r EXCEPT !.pc = "mm_place_no"])
               ELSE IF r.orders = NoOrders
                    THEN strategy_returns(id, r)
                    ELSE strategy_steps([r EXCEPT !.pc = "mm_loop"])
       IN IF cfg.single_order_side = other
          THEN after(run) /\ venue' = venue
          ELSE \/ \* place_order accepted
                  /\ VenueCanPlace(venue)
                  /\ venue' = VenuePlaced(venue)
                  /\ after(PutOrder(run, side \o "_buy",
                                    Leg(NewOrderId(venue), price, Shares(cfg.amount, price), "buy")))
               \/ \* place_order raised: logged
                  /\ venue' = venue
                  /\ after(run)

\* the while test reads only the dict of Legs
mm_loop_ignores_stop(id) ==
    /\ Runs(id, "market_maker")
    /\ run.pc = "mm_loop"
    /\ venue' = venue
    /\ IF run.orders = NoOrders
       THEN strategy_steps([run EXCEPT !.pc = "mm_cleanup", !.stop_exit = StopSet(id)])
       ELSE \/ strategy_steps(EndCycle(run, "mm_sleep"))
            \/ \E listing \in Listings(venue, LegIds(run.orders, DOMAIN run.orders)) :
                  strategy_steps([run EXCEPT !.pc = "mm_check",
                                             !.keys = run.okeys,
                                             !.open_ids = listing])

\* lines 219-227: the while test, then the order books and the open-order list
mm_loop(id) ==
    /\ Runs(id, "market_maker")
    /\ run.pc = "mm_loop"
    /\ venue' = venue
    /\ IF StopSet(id) \/ run.orders = NoOrders
       THEN strategy_steps([Read(run) EXCEPT !.pc = "mm_cleanup", !.stop_exit = StopSet(id)])
       ELSE \/ \* a get_orderbook or get_open_orders call raised: "Error in loop"
               strategy_steps(EndCycle(Read(run), "mm_sleep"))
            \/ \E listing \in Listings(venue, LegIds(run.orders, DOMAIN run.orders)) :
                  strategy_steps([Read(run) EXCEPT !.pc = "mm_check",
                                             !.keys = run.okeys,
                                             !.open_ids = listing])

\* the price tests are not strict
mm_check_on_equal(id) ==
    /\ Runs(id, "market_maker")
    /\ run.pc = "mm_check"
    /\ venue' = venue
    /\ IF run.keys = <<>>
       THEN strategy_steps(EndCycle(run, "mm_sleep"))
       ELSE LET key   == Head(run.keys)
                order == run.orders[key]
            IN IF order.order_id \notin run.open_ids
               THEN strategy_steps([run EXCEPT !.pc = "mm_verify", !.retry = 0])
               ELSE \E best \in MaybePrices :   \* best_bid of a BUY Leg's side, best_ask of a SELL Leg's
                      IF /\ best # NoPrice
                         /\ IF order.type = "buy" THEN order.price <= best ELSE order.price >= best
                      THEN strategy_steps([run EXCEPT !.pc = "mm_cancel", !.new_price = best,
                                                      !.best = best])
                      ELSE strategy_steps(NextKey(run))

\* lines 230-236, 317-325, 363-371: the next Leg of the cycle is looked at.
\* Each side's book, fetched at lines 222-225, is read for one Leg per cycle:
\* its filtered best prices are chosen where they are read.
mm_check(id) ==
    /\ Runs(id, "market_maker")
    /\ run.pc = "mm_check"
    /\ venue' = venue
    /\ IF run.keys = <<>>
       THEN strategy_steps(EndCycle(run, "mm_sleep"))
       ELSE LET key   == Head(run.keys)
                order == run.orders[key]
            IN IF order.order_id \notin run.open_ids
               THEN strategy_steps([run EXCEPT !.pc = "mm_verify", !.retry = 0])
               ELSE \E best \in MaybePrices :   \* best_bid of a BUY Leg's side, best_ask of a SELL Leg's
                      IF /\ best # NoPrice
                         /\ IF order.type = "buy" THEN order.price < best ELSE order.price > best
                      THEN strategy_steps([run EXCEPT !.pc = "mm_cancel", !.new_price = best,
                                                      !.best = best])
                      ELSE strategy_steps(NextKey(run))

\* lines 239-260: one retry of the fill confirmation (sleep 2 s, list the open orders)
mm_verify(id) ==
    /\ Runs(id, "market_maker")
    /\ run.pc = "mm_verify"
    /\ venue' = venue
    /\ LET key   == Head(run.keys)
           order == run.orders[key]
           absent(r) ==  \* this retry did not find the order: the next retry, or the fill is confirmed
               IF r.retry + 1 < VERIFY_RETRIES
               THEN strategy_steps([r EXCEPT !.retry = @ + 1])
               ELSE IF order.type = "sell"
                    THEN strategy_steps([r EXCEPT !.pc = "mm_fill_sell", !.retry = 0])
                    ELSE strategy_steps([r EXCEPT !.pc = "mm_fill_buy", !.retry = 0])
       IN \/ \* get_open_orders raised: logged, continue
             absent(Sleep(run, 20))
          \/ \E listing \in Listings(venue, {order.order_id}) :
                IF order.order_id \in listing
                THEN \* still open: skip the Leg in this cycle
                     strategy_steps([NextKey(Sleep(run, 20)) EXCEPT !.pc = "mm_check",
                                                                    !.again = @ \cup {key}])
                ELSE absent([Sleep(run, 20) EXCEPT !.absent = @ + 1])

\* lines 257-260: a confirmed SELL fill: del orders[key]
mm_fill_sell(id) ==
    /\ Runs(id, "market_maker")
    /\ run.pc = "mm_fill_sell"
    /\ venue' = venue
    /\ strategy_steps([NextKey(DelOrder(run, Head(run.keys))) EXCEPT !.pc = "mm_check"])

\* actual_shares the positions show for the token (total - frozen), in shares
ActualShares == {0, 2}

\* lines 262-315: a confirmed BUY fill: positions, the mirrored SELL, del orders[key]
mm_fill_buy(id) ==
    /\ Runs(id, "market_maker")
    /\ run.pc = "mm_fill_buy"
    /\ LET cfg    == tasks[id].config
           key    == Head(run.keys)
           order  == run.orders[key]
           side   == MMSide(key)
       IN \E actual \in ActualShares \cup {-1},   \* -1: get_positions raised or shows no such token
             bid \in MaybePrices, ask \in MaybePrices :
            LET book   == [bid |-> bid, ask |-> ask]
                shares == IF actual > 0 THEN Shares(actual, 1) ELSE order.shares
                spread_price == book.ask - TICK
                sell_price ==
                    IF cfg.mode = "spread"
                    THEN IF book.bid # NoPrice /\ spread_price <= book.bid
                         THEN book.ask ELSE spread_price
                    ELSE book.ask
                \* on to the next key; best keeps the best ask this fill read
                next(r) == [NextKey(DelOrder(r, key)) EXCEPT !.pc = "mm_check", !.best = book.ask]
            IN IF book.ask # NoPrice /\ shares.n > 0 /\ NotionalOk(shares, sell_price)
               THEN \/ \* place_sell_shares accepted
                       /\ VenueCanPlace(venue)
                       /\ venue' = VenuePlaced(venue)
                       /\ strategy_steps(
                            next(PutOrder(run, side \o "_sell",
                                          Leg(NewOrderId(venue), sell_price, shares, "sell"))))
                    \/ \* place_sell_shares raised: "Sell failed"
                       /\ venue' = venue
                       /\ strategy_steps(next(run))
               ELSE /\ venue' = venue
                    /\ strategy_steps(next(run))

\* lines 327-336, 373-382: cancel the old order, then sleep 0.5 s
mm_cancel(id) ==
    /\ Runs(id, "market_maker")
    /\ run.pc = "mm_cancel"
    /\ LET order == run.orders[Head(run.keys)] IN
       \E outcome \in CancelOutcomes :
          /\ venue' = VenueCancel(venue, order.trans_no, outcome)
          /\ strategy_steps([Sleep(run, 5) EXCEPT !.pc = "mm_replace"])

\* lines 338-361, 384-404: place the new order, or drop the Leg
mm_replace(id) ==
    /\ Runs(id, "market_maker")
    /\ run.pc = "mm_replace"
    /\ LET key    == Head(run.keys)
           order  == run.orders[key]
           price  == run.new_price
           \* BUY: remaining_usdt / new_price with remaining_usdt = remaining_shares * new_price
           shares == order.shares
           gone   == [NextKey(DelOrder(run, key)) EXCEPT !.pc = "mm_check"]
       IN IF NotionalOk(shares, price)
          THEN \/ \* placed: the Leg gets the new id, tracking number and price
                  /\ VenueCanPlace(venue)
                  /\ venue' = VenuePlaced(venue)
                  /\ strategy_steps(
                        [NextKey([run EXCEPT
                                    !.orders[key] = [order EXCEPT
                                        !.order_id = NewOrderId(venue),
                                        !.trans_no = TransNo(NewOrderId(venue)),
                                        !.price = price,
                                        !.shares = shares]])
                         EXCEPT !.pc = "mm_check"])
               \/ \* the placement raised: "Reorder failed", del orders[key]
                  /\ venue' = venue
                  /\ strategy_steps(gone)
          ELSE \* "Left amount < $1, removing order"
               /\ venue' = venue
               /\ strategy_steps(gone)

\* lines 434-438: for _ in range(int(poll_interval)): if stop_event.is_set(): break; sleep(1)
mm_sleep(id) ==
    /\ Runs(id, "market_maker")
    /\ run.pc = "mm_sleep"
    /\ venue' = venue
    /\ IF run.i < IntervalTicks(id) /\ ~StopSet(id)
       THEN strategy_steps([Sleep(Read(run), 10) EXCEPT !.i = @ + 1])
       ELSE strategy_steps([(IF run.i < IntervalTicks(id) THEN Read(run) ELSE run) EXCEPT !.pc = "mm_loop", !.i = 0])

\* lines 440-449: cancel every tracked order, each in its own try/except, and return
mm_cleanup(id) ==
    /\ Runs(id, "market_maker")
    /\ run.pc = "mm_cleanup"
    /\ \E outcome \in [DOMAIN run.orders -> CancelOutcomes] :
          venue' = VenueCancelAll(venue, run.orders, outcome)
    /\ strategy_returns(id, run)

----------------------------------------------------------------------------
(* run_sell_shares *)

\* what get_positions shows of a position: available = tokenAmount -
\* tokenFrozenAmount (in shares) and lastPrice
PositionKinds ==
    { [available |-> Shares(2, 1), last_price |-> 500],
      [available |-> Shares(1, 1), last_price |-> 500] }

\* the answers of get_positions: at most two positions, keyed "<topicId>_<side>"
PositionLists ==
    {<<>>} \cup {<<[key |-> "p1", pos |-> a]>> : a \in PositionKinds}
           \cup {<<[key |-> "p1", pos |-> a], [key |-> "p2", pos |-> b]>> :
                    a \in PositionKinds, b \in PositionKinds}

\* available > 0.01 and available * last_price >= 1.0
Sellable(p) ==
    /\ 100 * p.pos.available.n > p.pos.available.d
    /\ NotionalOk(p.pos.available, p.pos.last_price)

\* lines 466-509: client, config, positions, to_sell
ss_setup(id) ==
    /\ Runs(id, "sell_shares")
    /\ run.pc = "start"
    /\ venue' = venue
    /\ \/ \* get_client or get_positions raised: logged, return
          strategy_returns(id, run)
       \/ \E positions \in PositionLists :
             LET to_sell == SelectSeq(positions, Sellable) IN
             IF to_sell = <<>>
             THEN strategy_returns(id, run)
             ELSE strategy_steps([run EXCEPT !.pc = "ss_place", !.keys = to_sell])

\* lines 514-576: one turn of "for pos in to_sell", then "if not sell_orders: return"
ss_place(id) ==
    /\ Runs(id, "sell_shares")
    /\ run.pc = "ss_place"
    /\ IF run.keys = <<>> \/ StopSet(id)
       THEN /\ venue' = venue
            /\ LET r == IF run.keys = <<>> THEN run ELSE Read(run) IN
               IF run.orders = NoOrders
               THEN strategy_returns(id, [r EXCEPT !.keys = <<>>])
               ELSE strategy_steps([r EXCEPT !.pc = "ss_loop", !.keys = <<>>])
       ELSE LET p == Head(run.keys) IN
            \/ \* no questionId, no liquidity, or a venue call raised: on to the next position
               /\ venue' = venue
               /\ strategy_steps([Read(run) EXCEPT !.keys = Tail(@)])
            \/ \E best_ask \in Prices :
                  LET sell_price == IF tasks[id].config.mode = "spread"
                                    THEN best_ask - TICK ELSE best_ask
                  IN /\ VenueCanPlace(venue)
                     /\ venue' = VenuePlaced(venue)
                     /\ strategy_steps(
                           [PutOrder(Read(run), p.key,
                                     Leg(NewOrderId(venue), sell_price, p.pos.available, "sell"))
                            EXCEPT !.keys = Tail(run.keys), !.best = best_ask])

\* lines 596-608: the while test, then the open orders of every Leg's parent
\* topic, each query in its own try/except
ss_loop(id) ==
    /\ Runs(id, "sell_shares")
    /\ run.pc = "ss_loop"
    /\ venue' = venue
    /\ IF StopSet(id) \/ run.orders = NoOrders
       THEN strategy_steps([Read(run) EXCEPT !.pc = "ss_cleanup", !.stop_exit = StopSet(id)])
       ELSE \E listing \in Listings(venue, LegIds(run.orders, DOMAIN run.orders)) :
               \/ strategy_steps([Read(run) EXCEPT !.pc = "ss_check",
                                             !.keys = run.okeys,
                                             !.open_ids = listing])
               \/ \* a get_open_orders call raised: "except: pass", its orders are not in the list
                  strategy_steps([Read(run) EXCEPT !.pc = "ss_check",
                                             !.keys = run.okeys,
                                             !.open_ids = listing,
                                             !.unlogged = TRUE])

\* lines 611-614, 638-645: the next Leg of the cycle is looked at
ss_check(id) ==
    /\ Runs(id, "sell_shares")
    /\ run.pc = "ss_check"
    /\ venue' = venue
    /\ IF run.keys = <<>>
       THEN strategy_steps(EndCycle(run, "ss_sleep"))
       ELSE LET order == run.orders[Head(run.keys)] IN
            IF order.order_id \notin run.open_ids
            THEN strategy_steps([run EXCEPT !.pc = "ss_verify", !.retry = 0])
            ELSE \/ \E best_ask \in MaybePrices :   \* get_best_ask_for_order
                      IF best_ask # NoPrice /\ order.price > best_ask
                      THEN strategy_steps([run EXCEPT !.pc = "ss_cancel", !.new_price = best_ask,
                                                      !.best = best_ask])
                      ELSE strategy_steps(NextKey(run))
                 \/ \* get_orderbook raised: "except: pass", get_best_ask_for_order returns None
                    strategy_steps([NextKey(run) EXCEPT !.unlogged = TRUE])

\* lines 616-636: one retry of the fill confirmation
ss_verify(id) ==
    /\ Runs(id, "sell_shares")
    /\ run.pc = "ss_verify"
    /\ venue' = venue
    /\ LET key   == Head(run.keys)
           order == run.orders[key]
           absent(r) ==
               IF r.retry + 1 < VERIFY_RETRIES
               THEN strategy_steps([r EXCEPT !.retry = @ + 1])
               ELSE strategy_steps([r EXCEPT !.pc = "ss_sold", !.retry = 0])
       IN \/ \* get_open_orders raised: "Verify retry failed", continue
             absent(Sleep(run, 20))
          \/ \E listing \in Listings(venue, {order.order_id}) :
                IF order.order_id \in listing
                THEN strategy_steps([NextKey(Sleep(run, 20)) EXCEPT !.pc = "ss_check",
                                                                    !.again = @ \cup {key}])
                ELSE absent([Sleep(run, 20) EXCEPT !.absent = @ + 1])

\* "SOLD!" is logged and the Leg stays in sell_orders
ss_sold_keeps_leg(id) ==
    /\ Runs(id, "sell_shares")
    /\ run.pc = "ss_sold"
    /\ venue' = venue
    /\ strategy_logs(id, [NextKey(run) EXCEPT !.pc = "ss_check"], "SOLD " \o Head(run.keys))

\* lines 633-636: "SOLD!", del sell_orders[key]
ss_sold(id) ==
    /\ Runs(id, "sell_shares")
    /\ run.pc = "ss_sold"
    /\ venue' = venue
    /\ strategy_logs(id, [NextKey(DelOrder(run, Head(run.keys))) EXCEPT !.pc = "ss_check"],
                     "SOLD " \o Head(run.keys))

\* lines 647-655: cancel the old order, then sleep 0.5 s
ss_cancel(id) ==
    /\ Runs(id, "sell_shares")
    /\ run.pc = "ss_cancel"
    /\ LET order == run.orders[Head(run.keys)] IN
       \E outcome \in CancelOutcomes :
          /\ venue' = VenueCancel(venue, order.trans_no, outcome)
          /\ strategy_steps([Sleep(run, 5) EXCEPT !.pc = "ss_replace"])

\* lines 657-674: place the new SELL, or drop the Leg
ss_replace(id) ==
    /\ Runs(id, "sell_shares")
    /\ run.pc = "ss_replace"
    /\ LET key   == Head(run.keys)
           order == run.orders[key]
           price == run.new_price
           gone  == [NextKey(DelOrder(run, key)) EXCEPT !.pc = "ss_check"]
       IN IF NotionalOk(order.shares, price)
          THEN \/ /\ VenueCanPlace(venue)
                  /\ venue' = VenuePlaced(venue)
                  /\ strategy_steps(
                        [NextKey([run EXCEPT
                                    !.orders[key] = [order EXCEPT
                                        !.order_id = NewOrderId(venue),
                                        !.trans_no = TransNo(NewOrderId(venue)),
                                        !.price = price]])
                         EXCEPT !.pc = "ss_check"])
               \/ \* "Reorder failed": del sell_orders[key]
                  /\ venue' = venue
                  /\ strategy_steps(gone)
          ELSE \* "Value < $1, removing"
               /\ venue' = venue
               /\ strategy_steps(gone)

\* lines 695-698: the poll-interval wait, one second at a time
ss_sleep(id) ==
    /\ Runs(id, "sell_shares")
    /\ run.pc = "ss_sleep"
    /\ venue' = venue
    /\ IF run.i < IntervalTicks(id) /\ ~StopSet(id)
       THEN strategy_steps([Sleep(Read(run), 10) EXCEPT !.i = @ + 1])
       ELSE strategy_steps([(IF run.i < IntervalTicks(id) THEN Read(run) ELSE run) EXCEPT !.pc = "ss_loop", !.i = 0])

\* lines 700-711: on stop, cancel every Leg left, each in its own try/except; return
ss_cleanup(id) ==
    /\ Runs(id, "sell_shares")
    /\ run.pc = "ss_cleanup"
    /\ IF StopSet(id) /\ run.orders # NoOrders
       THEN \E outcome \in [DOMAIN run.orders -> CancelOutcomes] :
               venue' = VenueCancelAll(venue, run.orders, outcome)
       ELSE venue' = venue
    /\ strategy_returns(id, Read(run))

----------------------------------------------------------------------------
(* run_split_and_sell.  The Task's quantities of shares are in hundredths   *)
(* of a share; the amounts of a step are computed in thousandths and        *)
(* rounded to 2 decimals by step_amounts and round2.                        *)

\* for wait_attempt in range(12)
WAIT_ATTEMPTS == 12

\* for attempt in range(2)
PLACE_ATTEMPTS == 2

\* available shares of one side the positions show after the split
ShareLots == {0, 200}

Hundredths(h) == Shares(h, 100)

\* 0.01 share, the grid of round(x, 2), in thousandths of a share
CENT == 10

Ratio(n, d) == [n |-> n, d |-> d]

RatioLeq(a, b) == a.n * b.d <= b.n * a.d

RatioMin(a, b) == IF RatioLeq(a, b) THEN a ELSE b

\* diff_pct * 0.5 with no cap
factor_uncapped(hi, lo) == Ratio(hi - lo, 2 * hi)

\* lines 1106-1108, 1114-1115: factor = min(diff_pct * 0.5, 0.4)
factor(hi, lo) == RatioMin(Ratio(hi - lo, 2 * hi), Ratio(2, 5))

\* lines 1096-1117: yes_multiplier and no_multiplier
get_multipliers(aggressive_mode, sell_steps, yes_price, no_price) ==
    IF aggressive_mode /\ sell_steps >= 2
    THEN IF yes_price > no_price
         THEN LET f == factor(yes_price, no_price) IN
              [yes |-> Ratio(f.d + f.n, f.d), no |-> Ratio(f.d - f.n, f.d)]
         ELSE LET f == factor(no_price, yes_price) IN
              [yes |-> Ratio(f.d - f.n, f.d), no |-> Ratio(f.d + f.n, f.d)]
    ELSE [yes |-> Ratio(1, 1), no |-> Ratio(1, 1)]

\* round(x, 2) of a non-negative ratio of thousandths: the nearest multiple of
\* 0.01; exactly half way the float nearest to x decides, so either neighbour
round2(x) ==
    LET q == (2 * x.n + CENT * x.d) \div (2 * CENT * x.d) IN
    IF (2 * x.n + CENT * x.d) % (2 * CENT * x.d) = 0
    THEN {CENT * q, CENT * (q - 1)}
    ELSE {CENT * q}

\* lines 1144-1150: the amount of one side before the merge
to_sell_of(total, remaining, mult, step, sell_steps) ==
    IF step = sell_steps
    THEN Ratio(remaining, 1)
    ELSE RatioMin(Ratio(total * mult.n, sell_steps * mult.d), Ratio(remaining, 1))

\* remaining - to_sell < 0.01
AlmostNone(remaining, to_sell) == remaining * to_sell.d - to_sell.n < CENT * to_sell.d

\* lines 1144-1162: yes_to_sell and no_to_sell of a step before rounding
step_amounts(total, remaining, mult, step, sell_steps) ==
    LET yes0 == to_sell_of(total.yes, remaining.yes, mult.yes, step, sell_steps)
        no0  == to_sell_of(total.no, remaining.no, mult.no, step, sell_steps)
        yes_out == AlmostNone(remaining.yes, yes0)
        no_out  == AlmostNone(remaining.no, no0)
    IN IF step = sell_steps - 1 /\ yes_out /\ ~no_out
       THEN [yes |-> yes0, no |-> Ratio(remaining.no, 1)]
       ELSE IF step = sell_steps - 1 /\ no_out /\ ~yes_out
       THEN [yes |-> Ratio(remaining.yes, 1), no |-> no0]
       ELSE [yes |-> yes0, no |-> no0]

AddSales(a, b) ==
    [side \in {"yes", "no"} |-> [shares |-> a[side].shares + b[side].shares,
                                 usdt   |-> a[side].usdt + b[side].usdt]]

\* lines 1188-1231: the final statistics sum over stats['steps']
final_statistics(r) == [r EXCEPT !.stats.reported = TRUE, !.stats.total = r.stats.steps]

\* lines 734-788: client, config, URL, outcome, the first stop check
sp_setup(id) ==
    /\ Runs(id, "split_and_sell")
    /\ run.pc = "start"
    /\ venue' = venue
    /\ \/ \* get_client, the URL or the outcome failed: logged, return
          strategy_returns(id, run)
       \/ \* float(config.get("amount", 10)) raises
          /\ tasks[id].config.amount = NaN
          /\ strategy_raises(id, "could not convert string to float")
       \/ /\ tasks[id].config.amount # NaN
          /\ IF StopSet(id)
             THEN strategy_returns(id, Read(run))
             ELSE strategy_steps([Read(run) EXCEPT !.pc = "sp_split"])

\* lines 790-797: the venue's split primitive
sp_split(id) ==
    /\ Runs(id, "split_and_sell")
    /\ run.pc = "sp_split"
    /\ venue' = venue
    /\ \/ \* "Split failed": return
          strategy_returns(id, run)
       \/ strategy_steps([run EXCEPT !.pc = "sp_wait", !.i = 0])

\* lines 804-848: one turn of the wait for the shares, then the totals
sp_wait(id) ==
    /\ Runs(id, "split_and_sell")
    /\ run.pc = "sp_wait"
    /\ venue' = venue
    /\ LET proceed(r) ==   \* lines 833-848
               IF r.total.yes < 1 /\ r.total.no < 1
               THEN strategy_returns(id, r)
               ELSE strategy_steps([r EXCEPT !.pc = "sp_step", !.i = 0, !.rem = r.total, !.step = 1])
       IN IF run.i >= WAIT_ATTEMPTS
          THEN proceed(run)
          ELSE IF StopSet(id)
               THEN strategy_returns(id, Read(run))
               ELSE \/ \* sleep 5 s; get_positions raised: "Polling error"
                       strategy_steps([Sleep(Read(run), 50) EXCEPT !.i = @ + 1])
                    \/ \E yes_shares \in ShareLots, no_shares \in ShareLots :
                          LET r == [Sleep(Read(run), 50) EXCEPT
                                       !.total = [yes |-> yes_shares, no |-> no_shares]] IN
                          IF yes_shares > 1 /\ no_shares > 1
                          THEN proceed([Sleep(r, 100) EXCEPT !.settled = TRUE])   \* sleep 10 s more
                          ELSE strategy_steps([r EXCEPT !.i = @ + 1])

\* lines 1088-1090, 1137-1174: the amounts of the next step (yes_multiplier =
\* no_multiplier = 1.0: aggressive_mode is off), and the call of
\* place_and_monitor_step up to its "sell_orders = {}"
sp_step(id) ==
    /\ Runs(id, "split_and_sell")
    /\ run.pc = "sp_step"
    /\ venue' = venue
    /\ LET sell_steps == tasks[id].config.sell_steps
           step       == run.step
           \* line 1138: each turn of the loop over the steps reads the stop signal
           r == IF sell_steps > 1 /\ step <= sell_steps THEN Read(run) ELSE run
           enter(yes_to_sell, no_to_sell) ==
               strategy_steps([r EXCEPT !.pc = "sp_books",
                                          !.to_sell = [yes |-> yes_to_sell, no |-> no_to_sell],
                                          !.orders = NoOrders, !.okeys = <<>>,
                                          !.filled = {}, !.stop_exit = FALSE,
                                          !.stats.current_step = NoSales])
           one == [yes |-> Ratio(1, 1), no |-> Ratio(1, 1)]
           thousandths(t) == [yes |-> t.yes * CENT, no |-> t.no * CENT]
           a == step_amounts(thousandths(run.total), thousandths(run.rem), one, step, sell_steps)
       IN IF sell_steps <= 1
          THEN enter(run.total.yes, run.total.no)
          ELSE IF step > sell_steps \/ StopSet(id)
               THEN strategy_returns(id, final_statistics(r))
               ELSE \E yes_rounded \in round2(a.yes), no_rounded \in round2(a.no) :
                       LET yes_to_sell == yes_rounded \div CENT
                           no_to_sell  == no_rounded \div CENT
                       IN IF yes_to_sell < 1 /\ no_to_sell < 1
                          THEN strategy_returns(id, final_statistics(r))
                          ELSE enter(yes_to_sell, no_to_sell)

\* place_and_monitor_step returns (success, unsold_yes, unsold_no): lines
\* 1090, 1176-1186, and the final statistics of lines 1188-1231
sp_step_returns(id, r, success, unsold_yes, unsold_no) ==
    IF tasks[id].config.sell_steps <= 1
    THEN strategy_returns(id, final_statistics(r))
    ELSE LET rem == [yes |-> r.rem.yes - (r.to_sell.yes - unsold_yes),
                     no  |-> r.rem.no - (r.to_sell.no - unsold_no)]
         IN IF ~success \/ (rem.yes < 1 /\ rem.no < 1)
            THEN strategy_returns(id, final_statistics([r EXCEPT !.rem = rem]))
            ELSE strategy_steps([r EXCEPT !.pc = "sp_step", !.rem = rem, !.step = @ + 1])

\* lines 892-897: the order books of the step
sp_books(id) ==
    /\ Runs(id, "split_and_sell")
    /\ run.pc = "sp_books"
    /\ venue' = venue
    /\ \/ \* "Failed to get orderbook"
          sp_step_returns(id, run, FALSE, run.to_sell.yes, run.to_sell.no)
       \/ strategy_steps([run EXCEPT !.pc = "sp_place_yes", !.retry = 0])

\* lines 899-970: one attempt to place the SELL of one side, then "if not sell_orders"
sp_place(id, side) ==
    /\ Runs(id, "split_and_sell")
    /\ run.pc = "sp_place_" \o side
    /\ LET after(r) ==
               IF side = "yes"
               THEN strategy_steps([r EXCEPT !.pc = "sp_place_no", !.retry = 0])
               ELSE IF r.orders = NoOrders
                    THEN sp_step_returns(id, [r EXCEPT !.retry = 0], FALSE, r.to_sell.yes, r.to_sell.no)
                    ELSE strategy_steps([r EXCEPT !.pc = "sp_loop", !.retry = 0])
       IN IF run.to_sell[side] >= 1
          THEN \/ \* get_best_ask finds no ask with the minimum volume
                  /\ run.retry = 0
                  /\ venue' = venue
                  /\ after(run)
               \/ \E best_ask \in Prices :
                     LET sell_price == IF tasks[id].config.mode = "spread"
                                       THEN best_ask - TICK ELSE best_ask
                     IN \/ /\ VenueCanPlace(venue)
                           /\ venue' = VenuePlaced(venue)
                           /\ after(PutOrder(run, side,
                                             Leg(NewOrderId(venue), sell_price,
                                                 Hundredths(run.to_sell[side]), "sell")))
                        \/ \* the order failed: retry once after 5 s
                           /\ venue' = venue
                           /\ IF run.retry + 1 < PLACE_ATTEMPTS
                              THEN strategy_steps([Sleep(run, 50) EXCEPT !.retry = @ + 1])
                              ELSE after(run)
          ELSE /\ venue' = venue
               /\ after(run)

\* lines 976-986, 1084-1085: the while test; then the token refresh, the order
\* books and the open-order list, or "return True, 0, 0"
sp_loop(id) ==
    /\ Runs(id, "split_and_sell")
    /\ run.pc = "sp_loop"
    /\ venue' = venue
    /\ IF StopSet(id) \/ run.orders = NoOrders
       THEN \* stats['steps'].append(stats['current_step'])
            sp_step_returns(id, [Read(run) EXCEPT !.stop_exit = StopSet(id),
                                                  !.stats.steps = AddSales(@, run.stats.current_step)],
                            TRUE, 0, 0)
       ELSE \/ \* the refresh or a venue call raised: "Error"
               strategy_steps(EndCycle(Read(run), "sp_sleep"))
            \/ \E listing \in Listings(venue, LegIds(run.orders, DOMAIN run.orders)) :
                  strategy_steps([Read(run) EXCEPT !.pc = "sp_check",
                                             !.keys = run.okeys,
                                             !.open_ids = listing])

\* lines 988-993: the next Leg of the cycle is looked at
sp_check(id) ==
    /\ Runs(id, "split_and_sell")
    /\ run.pc = "sp_check"
    /\ venue' = venue
    /\ IF run.keys = <<>>
       THEN strategy_steps(EndCycle(run, "sp_sleep"))
       ELSE IF run.orders[Head(run.keys)].order_id \notin run.open_ids
            THEN strategy_steps([run EXCEPT !.pc = "sp_verify", !.retry = 0])
            ELSE strategy_steps([run EXCEPT !.pc = "sp_reprice"])

\* lines 994-1018: one retry of the fill confirmation; a failed query leaves the cycle
sp_verify(id) ==
    /\ Runs(id, "split_and_sell")
    /\ run.pc = "sp_verify"
    /\ venue' = venue
    /\ LET key   == Head(run.keys)
           order == run.orders[key]
       IN \/ \* get_open_orders raised: caught by the cycle's except, "Error"
             strategy_steps(EndCycle(Sleep(run, 20), "sp_sleep"))
          \/ \E listing \in Listings(venue, {order.order_id}) :
                IF order.order_id \in listing
                THEN \* is_filled = False: on to the price check of the same Leg
                     strategy_steps([Sleep(run, 20) EXCEPT !.pc = "sp_reprice", !.retry = 0,
                                                           !.again = @ \cup {key}])
                ELSE IF run.retry + 1 < VERIFY_RETRIES
                     THEN strategy_steps([Sleep(run, 20) EXCEPT !.retry = @ + 1, !.absent = @ + 1])
                     ELSE strategy_steps([Sleep(run, 20) EXCEPT !.pc = "sp_sold", !.retry = 0, !.absent = @ + 1])

\* lines 1002-1018: the step's statistics, "SOLD", del sell_orders[key]
sp_sold(id) ==
    /\ Runs(id, "split_and_sell")
    /\ run.pc = "sp_sold"
    /\ venue' = venue
    /\ LET key   == Head(run.keys)
           order == run.orders[key]
           sale  == [NoSales EXCEPT ![key] = [shares |-> order.shares.n,
                                              usdt   |-> order.shares.n * order.price]]
       IN strategy_steps([NextKey(DelOrder(run, key)) EXCEPT
                             !.pc = "sp_check",
                             !.filled = @ \cup {key},
                             !.stats.current_step = AddSales(@, sale),
                             !.stats.confirmed = AddSales(@, sale)])

\* lines 1021-1039: best ask (filtered), first bid of the book, new_price
sp_reprice(id) ==
    /\ Runs(id, "split_and_sell")
    /\ run.pc = "sp_reprice"
    /\ venue' = venue
    /\ LET order == run.orders[Head(run.keys)] IN
       \E best_ask \in MaybePrices, best_bid \in MaybePrices :   \* best_bid = 0 without bids
          IF best_ask # NoPrice /\ order.price > best_ask
          THEN strategy_steps([run EXCEPT !.pc = "sp_cancel",
                                          !.best = best_ask,
                                          !.new_price = IF best_ask <= best_bid
                                                        THEN best_bid + TICK ELSE best_ask])
          ELSE strategy_steps([NextKey(run) EXCEPT !.pc = "sp_check"])

\* lines 1041-1047: cancel the old order, then sleep 0.5 s
sp_cancel(id) ==
    /\ Runs(id, "split_and_sell")
    /\ run.pc = "sp_cancel"
    /\ LET order == run.orders[Head(run.keys)] IN
       \E outcome \in CancelOutcomes :   \* a cancel that raises: "except: pass"
          /\ venue' = VenueCancel(venue, order.trans_no, outcome)
          /\ strategy_steps([Sleep(run, 5) EXCEPT !.pc = "sp_replace",
                                        !.unlogged = @ \/ outcome # "ok"])

\* lines 1049-1058: place the new SELL; "Reorder failed" keeps the Leg as it was
sp_replace(id) ==
    /\ Runs(id, "split_and_sell")
    /\ run.pc = "sp_replace"
    /\ LET key   == Head(run.keys)
           order == run.orders[key]
       IN \/ /\ VenueCanPlace(venue)
             /\ venue' = VenuePlaced(venue)
             /\ strategy_steps(
                   [NextKey([run EXCEPT
                               !.orders[key] = [order EXCEPT
                                   !.order_id = NewOrderId(venue),
                                   !.trans_no = TransNo(NewOrderId(venue)),
                                   !.price = run.new_price]])
                    EXCEPT !.pc = "sp_check"])
          \/ /\ venue' = venue
             /\ strategy_steps([NextKey(run) EXCEPT !.pc = "sp_check"])

\* lines 1071-1081: the poll-interval wait; a stop seen here cancels every Leg
\* and returns False, 0, 0
sp_sleep(id) ==
    /\ Runs(id, "split_and_sell")
    /\ run.pc = "sp_sleep"
    /\ IF run.i < IntervalTicks(id)
       THEN IF StopSet(id)
            THEN /\ \E outcome \in [DOMAIN run.orders -> CancelOutcomes] :
                       venue' = VenueCancelAll(venue, run.orders, outcome)
                 /\ sp_step_returns(id, [Read(run) EXCEPT !.stop_exit = TRUE, !.i = 0], FALSE, 0, 0)
            ELSE /\ venue' = venue
                 /\ strategy_steps([Sleep(Read(run), 10) EXCEPT !.i = @ + 1])
       ELSE /\ venue' = venue
            /\ strategy_steps([run EXCEPT !.pc = "sp_loop", !.i = 0])

----------------------------------------------------------------------------
(* The specification of one running strategy *)

RunId == "task_a"

\* sell_steps of the configs of split_and_sell: 1 .. MaxSteps
MaxSteps == 2

\* the configs a Task of each type is created with
RunConfigs(type) ==
    IF type = "market_maker"
    THEN [ interval          : 0 .. MaxInterval,
           mode              : {"standard", "spread"},
           amount            : {1000, NaN},
           single_order_side : {"none", "yes"} ]
    ELSE IF type = "sell_shares"
    THEN [ interval : 0 .. MaxInterval,
           mode     : {"standard", "spread"} ]
    ELSE [ interval        : 0 .. MaxInterval,
           mode            : {"standard", "spread"},
           amount          : {1000, NaN},
           sell_steps      : 1 .. MaxSteps,
           aggressive_mode : {FALSE} ]

MarketMakerStep(id) ==
    \/ mm_setup(id)
    \/ mm_place(id, "yes")
    \/ mm_place(id, "no")
    \/ mm_loop(id)
    \/ mm_check(id)
    \/ mm_verify(id)
    \/ mm_fill_sell(id)
    \/ mm_fill_buy(id)
    \/ mm_cancel(id)
    \/ mm_replace(id)
    \/ mm_sleep(id)
    \/ mm_cleanup(id)

SellSharesStep(id) ==
    \/ ss_setup(id)
    \/ ss_place(id)
    \/ ss_loop(id)
    \/ ss_check(id)
    \/ ss_verify(id)
    \/ ss_sold(id)
    \/ ss_cancel(id)
    \/ ss_replace(id)
    \/ ss_sleep(id)
    \/ ss_cleanup(id)

SplitAndSellStep(id) ==
    \/ sp_setup(id)
    \/ sp_split(id)
    \/ sp_wait(id)
    \/ sp_step(id)
    \/ sp_books(id)
    \/ sp_place(id, "yes")
    \/ sp_place(id, "no")
    \/ sp_loop(id)
    \/ sp_check(id)
    \/ sp_verify(id)
    \/ sp_sold(id)
    \/ sp_reprice(id)
    \/ sp_cancel(id)
    \/ sp_replace(id)
    \/ sp_sleep(id)

StrategyStep(id) ==
    \/ MarketMakerStep(id)
    \/ SellSharesStep(id)
    \/ SplitAndSellStep(id)

WrappedRunnerStep(id) ==
    \/ wrapped_runner_completed(id)
    \/ wrapped_runner_error(id)
    \/ wrapped_runner_errlog(id)
    \/ wrapped_runner_finally(id)

VenueFills == \E n \in DOMAIN venue.orders : venue_fills(n)

\* the calls of the API that are accepted (a refused call changes nothing of the task)
StartRun == start_task_locked(RunId) /\ lastCall' = lastCall

StopRun == stop_task(RunId) /\ lastCall'.val

NextRun ==
    \/ \E type \in TaskTypes : \E config \in RunConfigs(type) : create_task(RunId, type, config)
    \/ StartRun
    \/ start_task_thread(RunId)
    \/ StopRun
    \/ WrappedRunnerStep(RunId)
    \/ StrategyStep(RunId)
    \/ VenueFills

SpecRun == Init /\ [][NextRun]_vars

\* every venue call returns or fails in finite time, every sleep ends, and the
\* thread is scheduled: the strategy and wrapped_runner keep taking steps
SpecRunFair ==
    /\ SpecRun
    /\ WF_vars(start_task_thread(RunId))
    /\ WF_vars(StrategyStep(RunId))
    /\ WF_vars(WrappedRunnerStep(RunId))

----------------------------------------------------------------------------
(* Claims about the Task Supervisor, checked under Spec *)

\* the runner of task id raised (runner_raises records a non-empty message)
Raised(id) == exc[id] # ""

StatusEdges ==
    { <<PENDING, RUNNING>>, <<RUNNING, STOPPING>>, <<STOPPING, STOPPED>>,
      <<RUNNING, COMPLETED>>, <<RUNNING, ERROR>> }

\* C1 as stated: every status change of a Task follows PENDING->RUNNING,
\* RUNNING->STOPPING, STOPPING->STOPPED, RUNNING->COMPLETED or RUNNING->ERROR.
C1_OnlyListedEdges ==
    [][\A id \in DOMAIN tasks :
          tasks'[id].status # tasks[id].status
            => <<tasks[id].status, tasks'[id].status>> \in StatusEdges]_vars

\* C1 amended: every status change of a Task follows one of the five listed
\* edges or STOPPING->ERROR (the strategy raised after a stop was accepted).
C1_EdgesWithStoppingError ==
    [][\A id \in DOMAIN tasks :
          tasks'[id].status # tasks[id].status
            => <<tasks[id].status, tasks'[id].status>>
                  \in StatusEdges \cup {<<STOPPING, ERROR>>}]_vars

\* a stop was accepted and the strategy raised afterwards: the Task went STOPPING->ERROR
C1_Witness ==
    \E id \in DOMAIN tasks : tasks[id].status = ERROR /\ stopTrue[id]

\* C2: stop(id) returns true exactly when the Task is RUNNING, and in that one
\* step sets the cancellation signal and moves the Task to STOPPING; on an
\* unknown id or any other status it returns false and changes no Task.
C2_StopOnlyFromRunning ==
    [][\A id \in TaskIds :
          (lastCall' # lastCall /\ lastCall'.op = "stop" /\ lastCall'.id = id)
            => IF id \in DOMAIN tasks /\ tasks[id].status = RUNNING
               THEN /\ lastCall'.val = TRUE
                    /\ tasks'[id] = [tasks[id] EXCEPT !.status = STOPPING,
                                                      !.stop_event = TRUE]
               ELSE /\ lastCall'.val = FALSE
                    /\ tasks' = tasks]_vars

\* a stop was accepted, and a second stop on the same Task was refused
C2_Witness ==
    \E id \in DOMAIN tasks :
        /\ stopTrue[id]
        /\ tasks[id].status = STOPPING
        /\ tasks[id].stop_event
        /\ lastCall = [op |-> "stop", id |-> id, val |-> FALSE, flip |-> lastCall.flip]

\* C3: a start(id) call passes its check only when the Task is PENDING; on an
\* unknown id or any other status it returns false, starts no thread and
\* changes no Task.
C3_StartOnlyFromPending ==
    [][\A id \in TaskIds :
          LET pending == id \in DOMAIN tasks /\ tasks[id].status = PENDING
              called  == lastCall' # lastCall /\ lastCall'.op = "start" /\ lastCall'.id = id
          IN  /\ (called /\ lastCall'.val = FALSE)
                    => /\ ~pending
                       /\ tasks' = tasks
                       /\ launched' = launched
                       /\ starting' = starting
                       /\ rpc' = rpc
              /\ starting'[id] > starting[id] => pending
              /\ (called /\ lastCall'.val = TRUE) => starting[id] > 0]_vars

\* a start was refused on a Task that a stop had already moved to STOPPING
C3_Witness ==
    \E id \in DOMAIN tasks :
        /\ tasks[id].status = STOPPING
        /\ launched[id] = 1
        /\ lastCall = [op |-> "start", id |-> id, val |-> FALSE, flip |-> lastCall.flip]

\* C4: for every Task id at most one strategy thread is ever started, and of
\* all start(id) calls, racing or not, exactly one gets past the check and
\* returns true once the Task has left PENDING (none before).
C4_OneThreadPerTask ==
    \A id \in TaskIds :
        /\ launched[id] <= 1
        /\ startTrue[id] = launched[id]
        /\ starting[id] + startTrue[id] =
              IF id \in DOMAIN tasks /\ tasks[id].status # PENDING THEN 1 ELSE 0

\* two start calls raced with a stop: one is between its check and its thread,
\* the stop was accepted, the other start was refused
C4_Witness ==
    \E id \in DOMAIN tasks :
        /\ starting[id] = 1
        /\ stopTrue[id]
        /\ lastCall = [op |-> "start", id |-> id, val |-> FALSE, flip |-> lastCall.flip]

\* C5: a cancellation signal that is set stays set in every later step, and
\* after a stop(id) that returned true the signal of that Task is set in every
\* reachable state.
C5_SignalNeverCleared ==
    /\ [](\A id \in DOMAIN tasks : stopTrue[id] => tasks[id].stop_event)
    /\ [][\A id \in DOMAIN tasks : tasks[id].stop_event => tasks'[id].stop_event]_vars

\* the stop was accepted before the thread was started, and the thread ran to its end
C5_Witness ==
    \E id \in DOMAIN tasks :
        /\ stopTrue[id]
        /\ tasks[id].stop_event
        /\ rpc[id] = "done"

\* C6: when the strategy returned normally, the status written is STOPPED if
\* a stop(id) was accepted before that write and COMPLETED otherwise.
C6_StoppedIffStopAccepted ==
    \A id \in DOMAIN tasks :
        (rpc[id] \in {"finally", "done"} /\ ~Raised(id))
            => tasks[id].status = IF stopTrue[id] THEN STOPPED ELSE COMPLETED

\* the strategy returned after an accepted stop and the Task is STOPPED
C6_Witness ==
    \E id \in DOMAIN tasks :
        rpc[id] = "done" /\ ~Raised(id) /\ stopTrue[id] /\ tasks[id].status = STOPPED

C8_TasksIsolated ==
    [][\A id \in TaskIds :
          (\/ (lastCall' # lastCall /\ lastCall'.id = id)
           \/ starting'[id] # starting[id]
           \/ rpc'[id] # rpc[id]
           \/ logCalls'[id] # logCalls[id]
           \/ (id \notin DOMAIN tasks /\ id \in DOMAIN tasks'))
            => \A other \in DOMAIN tasks \ {id} : tasks'[other] = tasks[other]]_vars

\* one Task was stopped and ended in ERROR while another one is still running, its signal clear
C8_Witness ==
    \E a, b \in DOMAIN tasks :
        /\ a # b
        /\ tasks[a].status = ERROR /\ tasks[a].stop_event
        /\ tasks[b].status = RUNNING /\ ~tasks[b].stop_event /\ tasks[b].logs # <<>>


----------------------------------------------------------------------------
(* Claims about a running strategy, checked under SpecRun and SpecRunFair *)

\* the strategy is inside its poll loop: between the first while test and the
\* exit of the loop
LoopPcs ==
    { "mm_loop", "mm_check", "mm_verify", "mm_fill_sell", "mm_fill_buy", "mm_cancel", "mm_replace",
      "mm_sleep",
      "ss_loop", "ss_check", "ss_verify", "ss_sold", "ss_cancel", "ss_replace", "ss_sleep",
      "sp_loop", "sp_check", "sp_verify", "sp_sold", "sp_reprice", "sp_cancel", "sp_replace",
      "sp_sleep" }

InPollLoop == rpc[RunId] = "run" /\ run.pc \in LoopPcs

\* C9: if stop(id) is accepted while the strategy is inside its poll loop, then
\* (every venue call returning or failing in finite time) the strategy leaves
\* the loop and the Task eventually is STOPPED, and it never is COMPLETED.
C9_StopInLoopLeadsToStopped ==
    /\ (stopTrue[RunId] /\ InPollLoop) ~> (stopTrue[RunId] /\ tasks[RunId].status = STOPPED)
    /\ [](stopTrue[RunId] => tasks[RunId].status # COMPLETED)

\* a stop was accepted inside the poll loop of a market maker (the loop had
\* already mirrored a filled BUY into a SELL), the loop was left with the stop
\* event set, and the Task is STOPPED
C9_Witness ==
    /\ stopTrue[RunId]
    /\ tasks[RunId].type = "market_maker"
    /\ "yes_sell" \in DOMAIN run.orders
    /\ run.stop_exit
    /\ tasks[RunId].status = STOPPED

\* C10: when a strategy exits because the stop event was set, a cancel request
\* has been issued for every Leg it still tracked, wherever in the cycle the
\* event was set, and no failure of a cancel has escaped the strategy.
C10_StopExitCancelsEveryLeg ==
    (run.pc = "done" /\ run.stop_exit) =>
        /\ ~Raised(RunId)
        /\ \A k \in DOMAIN run.orders : run.orders[k].trans_no \in venue.cancels

\* the fill of the Leg under examination has just been confirmed
FillConfirmed == rpc[RunId] = "run" /\ run.pc \in {"mm_fill_sell", "mm_fill_buy", "ss_sold", "sp_sold"}

\* C11: a Leg is confirmed filled in a cycle only if, after the poll did not
\* list its order id, three consecutive confirmation queries each returned an
\* open-order list without the id.
C11_ConfirmedOnlyAfterThreeAbsentAnswers ==
    FillConfirmed => run.absent = VERIFY_RETRIES

\* a reprice of the Leg under examination is under way
RepricePcs == {"mm_cancel", "mm_replace", "ss_cancel", "ss_replace", "sp_cancel", "sp_replace"}

\* the pcs at which a Leg is only looked at
LookPcs == {"mm_check", "ss_check", "sp_check", "sp_reprice"}

Repricing == rpc[RunId] = "run" /\ run.pc \in RepricePcs

\* the venue writes made so far: orders placed, cancels requested
VenueWrites(v) == <<Len(v.orders), v.cancels>>

\* C12: a cancel or re-place is issued for a BUY Leg only if the filtered best
\* bid is strictly above its resting price, and for a SELL Leg only if the
\* filtered best ask is strictly below it; a step that looks at a Leg and sets
\* no reprice off leaves the Legs and the venue's orders as they were.
C12_RepriceOnlyOnFavourableMove ==
    [][ /\ Repricing' =>
            LET order == run'.orders[Head(run'.keys)] IN
            /\ run'.best # NoPrice
            /\ IF order.type = "buy" THEN run'.best > order.price ELSE run'.best < order.price
        /\ (rpc[RunId] = "run" /\ run.pc \in LookPcs) =>
            /\ run'.orders = run.orders
            /\ VenueWrites(venue') = VenueWrites(venue) ]_vars

\* a BUY Leg's reprice was set off by a better bid
C12_Witness ==
    /\ Repricing
    /\ run.pc = "mm_replace"
    /\ run.orders[Head(run.keys)].type = "buy"
    /\ run.best > run.orders[Head(run.keys)].price
    /\ TransNo(run.orders[Head(run.keys)].order_id) \in venue.cancels

\* the pcs at which the loop is left: the while tests, and the wait of
\* place_and_monitor_step that returns on a stop
ExitPcs == {"mm_loop", "ss_loop", "sp_loop", "sp_sleep"}

\* C13: a failing venue call during a poll cycle neither ends the loop nor
\* moves the Task to ERROR, and it is logged: no step inside the loop raises
\* out of the runner, every step of the cycle's body stays inside the loop, and
\* no failure is swallowed without a log call.
C13_VenueFailureLoggedLoopGoesOn ==
    [][ (rpc[RunId] = "run" /\ run.pc \in LoopPcs) =>
            /\ rpc'[RunId] # "raised"
            /\ tasks'[RunId].status # ERROR
            /\ run.pc \notin ExitPcs => (rpc'[RunId] = "run" /\ run'.pc \in LoopPcs)
            /\ ~run'.unlogged ]_vars

\* a sell_shares Task that no stop request has reached
SellSharesNoStop ==
    /\ RunId \in DOMAIN tasks
    /\ tasks[RunId].type = "sell_shares"
    /\ rpc[RunId] = "run"
    /\ ~stopTrue[RunId]

\* the placement pass takes the next eligible position
PlacesNext == SellSharesNoStop /\ run.pc = "ss_place" /\ run.keys # <<>> /\ run'.keys = Tail(run.keys)

\* the order of the position just taken is at the position's filtered best ask in standard mode
PlacedAtBestAsk ==
    LET key == Head(run.keys).key IN
    /\ key \in DOMAIN run'.orders
    /\ run'.orders[key].order_id = Len(venue'.orders)
    /\ tasks[RunId].config.mode = "standard" => run'.orders[key].price = run'.best

\* a Leg confirmed filled is logged as SOLD and removed from tracking
SoldLoggedAndRemoved ==
    (SellSharesNoStop /\ run.pc = "ss_sold" /\ run' # run) =>
        /\ Head(run.keys) \notin DOMAIN run'.orders
        /\ tasks'[RunId].logs = Append(tasks[RunId].logs, LogEntry("SOLD " \o Head(run.keys)))

\* the loop is left without a cancel
ExitWithoutCancel ==
    (SellSharesNoStop /\ run.pc \in {"ss_loop", "ss_cleanup"} /\ run' # run) =>
        venue'.cancels = venue.cancels

\* with no Legs left the Task gets COMPLETED (unless a stop request arrives first)
NoLegsLeadsToCompleted ==
    (SellSharesNoStop /\ run.pc = "ss_loop" /\ run.orders = NoOrders)
        ~> (stopTrue[RunId] \/ (RunId \in DOMAIN tasks /\ tasks[RunId].status = COMPLETED))

\* C14 as stated: in a sell_shares Task with no stop request, exactly one SELL
\* order is placed per eligible position, at its filtered best ask in standard
\* mode; each Leg confirmed filled is logged as SOLD and removed; once no Legs
\* remain the loop exits without a cancel and the Task gets COMPLETED.
C14_ExactlyOneSellPerPosition ==
    /\ [][ /\ PlacesNext => (Len(venue'.orders) = Len(venue.orders) + 1 /\ PlacedAtBestAsk)
           /\ SoldLoggedAndRemoved
           /\ ExitWithoutCancel ]_vars
    /\ NoLegsLeadsToCompleted

\* C14 amended: at most one SELL order is placed per eligible position, none
\* when its question id, order book or placement fails, and a placed order is
\* at the position's filtered best ask in standard mode; the rest as stated.
C14_AtMostOneSellPerPosition ==
    /\ [][ /\ PlacesNext =>
                \/ (venue'.orders = venue.orders /\ run'.orders = run.orders)
                \/ (Len(venue'.orders) = Len(venue.orders) + 1 /\ PlacedAtBestAsk)
           /\ SoldLoggedAndRemoved
           /\ ExitWithoutCancel ]_vars
    /\ NoLegsLeadsToCompleted

\* a sell_shares Task that was never asked to stop sold two Legs, logged both,
\* issued no cancel and is COMPLETED
C14_Witness ==
    /\ RunId \in DOMAIN tasks
    /\ tasks[RunId].type = "sell_shares"
    /\ ~stopTrue[RunId]
    /\ tasks[RunId].status = COMPLETED
    /\ Len(tasks[RunId].logs) = 2
    /\ run.orders = NoOrders
    /\ venue.cancels = {}

----------------------------------------------------------------------------
(* The order-book helpers of the strategies: get_best_bid and get_best_ask
   over a list of levels <<price, volume>>, the price in ticks of 0.001 and
   the threshold min_volume in thousandths of a dollar. *)

MaxLevels == 3

LevelPrices == {499, 500, 501}
LevelVolumes == {5, 20}
Levels == LevelPrices \X LevelVolumes
MinVolumes == {5000}
NoLevel == <<>>

RECURSIVE LevelLists(_)
LevelLists(n) ==
    IF n = 0 THEN {<<>>}
    ELSE LevelLists(n - 1) \cup
         {Append(l, x) : l \in {m \in LevelLists(n - 1) : Len(m) = n - 1}, x \in Levels}

\* the sequence without its i-th element
Without(seq, i) == SubSeq(seq, 1, i - 1) \o SubSeq(seq, i + 1, Len(seq))

\* sorted(levels, key=price, reverse=reverse): a stable sort, the first of the
\* levels with the extreme price comes first
RECURSIVE sorted(_, _)
sorted(levels, reverse) ==
    IF levels = <<>> THEN <<>>
    ELSE LET before(a, b) == IF reverse THEN a[1] > b[1] ELSE a[1] < b[1]
             i == CHOOSE k \in 1..Len(levels) :
                    /\ \A j \in 1..Len(levels) : ~before(levels[j], levels[k])
                    /\ \A j \in 1..(k - 1) : before(levels[k], levels[j])
         IN <<levels[i]>> \o sorted(Without(levels, i), reverse)

\* the first level of the list, in list order, whose volume * price reaches min_volume
RECURSIVE first_liquid(_, _)
first_liquid(levels, min_volume) ==
    IF levels = <<>> THEN NoLevel
    ELSE IF Head(levels)[2] * Head(levels)[1] >= min_volume THEN Head(levels)
    ELSE first_liquid(Tail(levels), min_volume)

\* the same scan over the levels as the venue sent them
get_best_bid_unsorted(orderbook, min_volume) == first_liquid(orderbook.bids, min_volume)

get_best_bid(orderbook, min_volume) == first_liquid(sorted(orderbook.bids, TRUE), min_volume)

get_best_ask(orderbook, min_volume) == first_liquid(sorted(orderbook.asks, FALSE), min_volume)

\* opinion_client.py 175-202: the price of the first level of the side's list, as
\* the order book holds it, whose volume * price reaches min_volume; None without one
get_best_price(orderbook, side, min_volume) ==
    LET order == first_liquid(IF side = "bid" THEN orderbook.bids ELSE orderbook.asks,
                              min_volume)
    IN IF order = NoLevel THEN NoPrice ELSE order[1]

BookInit(levels, min_volume) ==
    [pc |-> "book", levels |-> levels, min_volume |-> min_volume,
     best_bid |-> NoLevel, best_ask |-> NoLevel, bid_done |-> FALSE, ask_done |-> FALSE,
     best_price |-> [bid |-> NoPrice, ask |-> NoPrice], price_done |-> {}]

\* a caller of the client reads the best price of a side of an order book whose
\* levels of that side are the levels
book_best_price(side) ==
    /\ calc.pc = "book"
    /\ side \notin calc.price_done
    /\ calc' = [calc EXCEPT !.price_done = @ \cup {side},
                            !.best_price[side] =
                                get_best_price([bids |-> calc.levels, asks |-> calc.levels],
                                               side, calc.min_volume)]
    /\ UNCHANGED <<tasks, starting, launched, rpc, exc, lastCall, startTrue, stopTrue,
                   logCalls, run, venue>>

\* a strategy reads the best bid of an order book whose bids are the levels
book_best_bid ==
    /\ calc.pc = "book"
    /\ ~calc.bid_done
    /\ calc' = [calc EXCEPT !.bid_done = TRUE,
                            !.best_bid = get_best_bid([bids |-> calc.levels, asks |-> <<>>],
                                                      calc.min_volume)]
    /\ UNCHANGED <<tasks, starting, launched, rpc, exc, lastCall, startTrue, stopTrue,
                   logCalls, run, venue>>

\* a strategy reads the best ask of an order book whose asks are the levels
book_best_ask ==
    /\ calc.pc = "book"
    /\ ~calc.ask_done
    /\ calc' = [calc EXCEPT !.ask_done = TRUE,
                            !.best_ask = get_best_ask([bids |-> <<>>, asks |-> calc.levels],
                                                      calc.min_volume)]
    /\ UNCHANGED <<tasks, starting, launched, rpc, exc, lastCall, startTrue, stopTrue,
                   logCalls, run, venue>>

InitBook ==
    /\ Constructed
    /\ \E levels \in LevelLists(MaxLevels), min_volume \in MinVolumes :
          calc = BookInit(levels, min_volume)

NextBook ==
    \/ book_best_bid
    \/ book_best_ask
    \/ \E side \in {"bid", "ask"} : book_best_price(side)

SpecBook == InitBook /\ [][NextBook]_vars

\* the levels whose price * quantity reaches the threshold
Qualifying(levels, min_volume) ==
    {levels[k] : k \in {j \in 1..Len(levels) : levels[j][1] * levels[j][2] >= min_volume}}

\* C15: for any list of levels in any order, the best bid is a qualifying level
\* with the highest price among the qualifying levels and the best ask one with
\* the lowest; each is none exactly when no level qualifies, and a level below
\* the threshold is never returned.
C15_BestOfQualifyingLevels ==
    LET q == Qualifying(calc.levels, calc.min_volume) IN
    calc.pc = "book" =>
        /\ calc.bid_done =>
              /\ (calc.best_bid = NoLevel) <=> (q = {})
              /\ calc.best_bid # NoLevel =>
                    /\ calc.best_bid \in q
                    /\ \A l \in q : l[1] <= calc.best_bid[1]
        /\ calc.ask_done =>
              /\ (calc.best_ask = NoLevel) <=> (q = {})
              /\ calc.best_ask # NoLevel =>
                    /\ calc.best_ask \in q
                    /\ \A l \in q : l[1] >= calc.best_ask[1]

\* both were read from a list out of price order whose highest-priced level
\* is below the threshold
C15_Witness ==
    /\ calc.pc = "book"
    /\ calc.bid_done /\ calc.ask_done
    /\ calc.levels = << <<501, 5>>, <<499, 20>>, <<500, 20>> >>
    /\ calc.best_bid = <<500, 20>>
    /\ calc.best_ask = <<499, 20>>

----------------------------------------------------------------------------
(* The step partition of run_split_and_sell (lines 1087-1186): quantities in
   thousandths of a share, prices in ticks, multipliers as exact ratios. *)

MaxSellSteps == 3

\* total - frozen of one side as the positions report it
TotalLots == {0, 20, 1000, 1006}

\* the best asks get_current_prices reads, 0.5 being its default
SkewPrices == {100, 500, 900}

StepsInit(total, sell_steps, aggressive_mode, price) ==
    [pc |-> "steps", total |-> total, sell_steps |-> sell_steps,
     aggressive_mode |-> aggressive_mode, price |-> price,
     begun |-> FALSE, mult |-> [yes |-> Ratio(1, 1), no |-> Ratio(1, 1)],
     step |-> 1, remaining |-> total, steps |-> <<>>,
     done |-> FALSE, incomplete |-> FALSE]

\* lines 1088-1118, 1134-1135: the multipliers, yes_remaining and no_remaining
steps_begin ==
    /\ calc.pc = "steps"
    /\ ~calc.begun
    /\ calc' = [calc EXCEPT !.begun = TRUE,
                            !.mult = get_multipliers(calc.aggressive_mode, calc.sell_steps,
                                                     calc.price.yes, calc.price.no)]
    /\ UNCHANGED <<tasks, starting, launched, rpc, exc, lastCall, startTrue, stopTrue,
                   logCalls, run, venue>>

\* lines 1088-1090: a single step sells the totals
steps_single ==
    /\ calc.pc = "steps"
    /\ calc.begun /\ ~calc.done
    /\ calc.sell_steps <= 1
    /\ calc' = [calc EXCEPT !.done = TRUE,
                            !.remaining = [yes |-> 0, no |-> 0],
                            !.steps = <<[yes |-> calc.total.yes, no |-> calc.total.no,
                                         remaining |-> calc.total]>>]
    /\ UNCHANGED <<tasks, starting, launched, rpc, exc, lastCall, startTrue, stopTrue,
                   logCalls, run, venue>>

\* lines 1137-1186: one turn of the loop over the steps
steps_next ==
    /\ calc.pc = "steps"
    /\ calc.begun /\ ~calc.done
    /\ calc.sell_steps > 1
    /\ \/ \* the stop signal is set: break
          calc' = [calc EXCEPT !.done = TRUE, !.incomplete = TRUE]
       \/ LET a == step_amounts(calc.total, calc.remaining, calc.mult, calc.step, calc.sell_steps) IN
          \E yes_to_sell \in round2(a.yes), no_to_sell \in round2(a.no) :
             IF yes_to_sell < CENT /\ no_to_sell < CENT
             THEN \* "Nothing to sell": break
                  calc' = [calc EXCEPT !.done = TRUE]
             ELSE \* place_and_monitor_step: nothing unsold, or no order book and all unsold
                  \E success \in BOOLEAN, sold \in BOOLEAN :
                     LET left == IF sold THEN [yes |-> calc.remaining.yes - yes_to_sell,
                                               no |-> calc.remaining.no - no_to_sell]
                                 ELSE calc.remaining
                     IN /\ success => sold
                        /\ calc' = [calc EXCEPT
                               !.remaining = left,
                               !.steps = Append(@, [yes |-> yes_to_sell, no |-> no_to_sell,
                                                    remaining |-> calc.remaining]),
                               !.incomplete = ~success,
                               !.step = @ + 1,
                               !.done = \/ ~success
                                        \/ (left.yes < CENT /\ left.no < CENT)
                                        \/ calc.step = calc.sell_steps]
    /\ UNCHANGED <<tasks, starting, launched, rpc, exc, lastCall, startTrue, stopTrue,
                   logCalls, run, venue>>

\* lines 833-835: the strategy goes on unless both sides are below 0.01
InitSteps ==
    /\ Constructed
    /\ \E yes \in TotalLots, no \in TotalLots, sell_steps \in 1..MaxSellSteps,
          aggressive_mode \in BOOLEAN, yes_price \in SkewPrices, no_price \in SkewPrices :
          /\ ~(yes < CENT /\ no < CENT)
          /\ calc = StepsInit([yes |-> yes, no |-> no], sell_steps, aggressive_mode,
                              [yes |-> yes_price, no |-> no_price])

NextSteps == steps_begin \/ steps_single \/ steps_next

SpecSteps == InitSteps /\ [][NextSteps]_vars

RECURSIVE SumOf(_, _)
SumOf(steps, side) ==
    IF steps = <<>> THEN 0 ELSE steps[1][side] + SumOf(Tail(steps), side)

\* C16: when every step runs to completion, the step quantities of each side
\* sum to the side's total, every step quantity is at least 0 and at most what
\* remains of the side, and the last executed step sells all that then remains.
C16_StepsSumToTotal ==
    calc.pc = "steps" =>
        /\ \A k \in 1..Len(calc.steps) : \A side \in {"yes", "no"} :
              /\ calc.steps[k][side] >= 0
              /\ calc.steps[k][side] <= calc.steps[k].remaining[side]
        /\ (calc.done /\ ~calc.incomplete) =>
              /\ \A side \in {"yes", "no"} : SumOf(calc.steps, side) = calc.total[side]
              /\ calc.steps # <<>>
              /\ \A side \in {"yes", "no"} :
                    calc.steps[Len(calc.steps)][side] = calc.steps[Len(calc.steps)].remaining[side]

\* the skew of a multiplier m: m - 1 for the side above 1
SkewOf(m) == Ratio(m.n - m.d, m.d)

\* C17: the factor is min(diff_pct * 0.5, 0.4) and lies in [0, 0.4]; the side
\* priced higher gets 1 + factor and the other 1 - factor, so both multipliers
\* lie in [0.6, 1.4] and sum to 2; with aggressive mode off or a single step
\* both multipliers are 1.
C17_SkewBoundedAndBalanced ==
    (calc.pc = "steps" /\ calc.begun) =>
        LET yes == calc.mult.yes
            no  == calc.mult.no
            hi  == IF calc.price.yes > calc.price.no THEN calc.price.yes ELSE calc.price.no
            lo  == IF calc.price.yes > calc.price.no THEN calc.price.no ELSE calc.price.yes
            f   == IF calc.price.yes > calc.price.no THEN SkewOf(yes) ELSE SkewOf(no)
            half_diff == Ratio(hi - lo, 2 * hi)    \* diff_pct * 0.5
            cap == Ratio(2, 5)
        IN /\ RatioLeq(Ratio(0, 1), f) /\ RatioLeq(f, cap)
           /\ (calc.aggressive_mode /\ calc.sell_steps >= 2) =>
                 /\ RatioLeq(f, half_diff) /\ RatioLeq(f, cap)
                 /\ RatioLeq(half_diff, f) \/ RatioLeq(cap, f)
                 /\ calc.price.yes > calc.price.no => RatioLeq(no, yes)
                 /\ calc.price.no > calc.price.yes => RatioLeq(yes, no)
           /\ yes.n * no.d + no.n * yes.d = 2 * yes.d * no.d
           /\ \A m \in {yes, no} : RatioLeq(Ratio(3, 5), m) /\ RatioLeq(m, Ratio(7, 5))
           /\ (~calc.aggressive_mode \/ calc.sell_steps = 1) => (yes.n = yes.d /\ no.n = no.d)

\* an aggressive partition in several steps with YES far above NO: the factor is
\* capped, YES gets 1.4 and NO 0.6
C17_Witness ==
    /\ calc.pc = "steps" /\ calc.begun
    /\ calc.aggressive_mode /\ calc.sell_steps >= 2
    /\ calc.price = [yes |-> 900, no |-> 100]
    /\ calc.mult = [yes |-> Ratio(7, 5), no |-> Ratio(3, 5)]

----------------------------------------------------------------------------
(* TaskManager._log with its subscribers (lines 155-196): the log of one
   running Task near the cap, the callbacks subscribed to it, and the logger
   calls of its strategy. *)

MaxLogged == 3
MaxSubscribers == 2

Callbacks == {"cb1", "cb2"}

\* messages of the logger calls
LogMessages == {"Starting", "SOLD"}

\* the entries of n earlier logger calls
EarlierEntries(n) == [k \in 1..n |-> LogEntry(IF k % 2 = 0 THEN "Starting" ELSE "SOLD")]

\* the numbers of earlier logger calls the model starts from
EarlierCalls == {0, MAX_LOGS - 1, MAX_LOGS}

NoLogCall == [entry |-> "", raising |-> {}, invoked |-> <<>>, returned |-> TRUE]

LogInit(n) ==
    [pc |-> "log", appended |-> EarlierEntries(n), callbacks |-> <<>>, calls |-> 0, last |-> NoLogCall]

\* the loop over the callbacks with no try around the call: the first callback
\* that raises ends the loop and the exception leaves _log
RECURSIVE notify_unguarded(_, _)
notify_unguarded(callbacks, raising) ==
    IF callbacks = <<>> THEN [invoked |-> <<>>, raised |-> FALSE]
    ELSE IF Head(callbacks) \in raising
    THEN [invoked |-> <<Head(callbacks)>>, raised |-> TRUE]
    ELSE LET rest == notify_unguarded(Tail(callbacks), raising)
         IN [invoked |-> <<Head(callbacks)>> \o rest.invoked, raised |-> rest.raised]

\* lines 192-196: every callback of the copy is called, what it raises is dropped
RECURSIVE notify(_, _)
notify(callbacks, raising) ==
    IF callbacks = <<>> THEN [invoked |-> <<>>, raised |-> FALSE]
    ELSE LET rest == notify(Tail(callbacks), raising)
         IN [invoked |-> <<Head(callbacks)>> \o rest.invoked, raised |-> rest.raised]

\* lines 155-160
subscribe_logs(callback) ==
    /\ calc.pc = "log"
    /\ Len(calc.callbacks) < MaxSubscribers
    /\ calc' = [calc EXCEPT !.callbacks = Append(@, callback)]
    /\ UNCHANGED <<tasks, starting, launched, rpc, exc, lastCall, startTrue, stopTrue,
                   logCalls, run, venue>>

\* lines 162-169: list.remove drops the first occurrence, ValueError is dropped
unsubscribe_logs(callback) ==
    /\ calc.pc = "log"
    /\ calc' = [calc EXCEPT !.callbacks =
                    IF \E k \in 1..Len(@) : @[k] = callback
                    THEN Without(@, CHOOSE k \in 1..Len(@) :
                                       /\ @[k] = callback
                                       /\ \A j \in 1..(k - 1) : @[j] # callback)
                    ELSE @]
    /\ calc'.callbacks # calc.callbacks
    /\ UNCHANGED <<tasks, starting, launched, rpc, exc, lastCall, startTrue, stopTrue,
                   logCalls, run, venue>>

\* lines 172-196: the strategy calls its logger; the callbacks in raising raise
logger(message) ==
    /\ calc.pc = "log"
    /\ calc.calls < MaxLogged
    /\ tasks' = Log(tasks, RunId, message)
    /\ \E raising \in SUBSET Range(calc.callbacks) :
          LET n == notify(calc.callbacks, raising) IN
          calc' = [calc EXCEPT !.appended = Append(@, LogEntry(message)),
                               !.calls = @ + 1,
                               !.last = [entry |-> LogEntry(message), raising |-> raising,
                                         invoked |-> n.invoked, returned |-> ~n.raised]]
    /\ UNCHANGED <<starting, launched, rpc, exc, lastCall, startTrue, stopTrue,
                   logCalls, run, venue>>

\* a Task whose strategy runs and has logged before
InitLog ==
    /\ \E n \in EarlierCalls :
          /\ tasks = (RunId :> [Task(RunId, "market_maker", DefaultConfig) EXCEPT
                                    !.status = RUNNING, !.started_at = TRUE, !.thread = TRUE,
                                    !.logs = LastN(EarlierEntries(n), MAX_LOGS)])
          /\ calc = LogInit(n)
    /\ starting = [id \in TaskIds |-> 0]
    /\ launched = [id \in TaskIds |-> IF id = RunId THEN 1 ELSE 0]
    /\ rpc = [id \in TaskIds |-> IF id = RunId THEN "run" ELSE "idle"]
    /\ exc = [id \in TaskIds |-> ""]
    /\ lastCall = [op |-> "start", id |-> RunId, val |-> TRUE, flip |-> 1]
    /\ startTrue = [id \in TaskIds |-> IF id = RunId THEN 1 ELSE 0]
    /\ stopTrue = [id \in TaskIds |-> FALSE]
    /\ logCalls = [id \in TaskIds |-> 0]
    /\ run = RunInit
    /\ venue = VenueInit

Subscribe == \E callback \in Callbacks : subscribe_logs(callback)

Unsubscribe == \E callback \in Callbacks : unsubscribe_logs(callback)

LoggerCall == \E message \in LogMessages : logger(message)

NextLog == Subscribe \/ Unsubscribe \/ LoggerCall

SpecLog == InitLog /\ [][NextLog]_vars

\* C18: after any sequence of log calls the log holds at most 5000 entries,
\* exactly the most recent min(n, 5000) of the n entries ever appended, in
\* append order.
C18_LogIsLastFiveThousand ==
    calc.pc = "log" =>
        LET logs == tasks[RunId].logs
            n == Len(calc.appended)
            m == IF n <= 5000 THEN n ELSE 5000
        IN /\ Len(logs) = m
           /\ \A k \in 1..m : logs[k] = calc.appended[n - m + k]

\* more than 5000 entries were appended and the log holds 5000
C18_Witness ==
    /\ calc.pc = "log"
    /\ Len(calc.appended) = 5002
    /\ Len(tasks[RunId].logs) = 5000
    /\ calc.calls = 2

\* C19: a logger call in which the delivery to a subscriber fails still appends
\* its entry to the Task's log, still invokes every subscriber of the Task with
\* the entry, and returns normally to the strategy.
C19_FailingSubscriberChangesNothing ==
    [][ (calc.pc = "log" /\ calc'.calls = calc.calls + 1 /\ calc'.last.raising # {}) =>
            /\ tasks'[RunId].logs # <<>>
            /\ tasks'[RunId].logs[Len(tasks'[RunId].logs)] = calc'.last.entry
            /\ Len(calc'.appended) = Len(calc.appended) + 1
            /\ calc'.last.invoked = calc.callbacks
            /\ calc'.last.returned ]_vars

\* the first of two subscribers raised, both were invoked and the call returned
C19_Witness ==
    /\ calc.pc = "log"
    /\ calc.callbacks = <<"cb1", "cb2">>
    /\ calc.last.raising = {"cb1"}
    /\ calc.last.invoked = <<"cb1", "cb2">>
    /\ calc.last.returned
    /\ tasks[RunId].logs[Len(tasks[RunId].logs)] = calc.last.entry

----------------------------------------------------------------------------
(* The waits of the running strategy *)

\* C20: between two consecutive reads of the stop signal by a running strategy
\* at most one second of sleeping elapses, in every wait of the strategies.
C20_StopReadEverySecondOfSleep == run.slept <= ONE_SECOND

----------------------------------------------------------------------------
(* The shared auth token (runners.py 29-59, 978-981; app.py 119-124) and the
   token of the client a running Task sends its venue requests with.  "" is
   None or the empty string. *)

AuthTokens == {"t1", "t2"}

\* type of the Task, config["auth_token"], AUTH_TOKEN of the environment, _shared_auth_token
TokenInit(type, override, env, shared) ==
    [pc |-> "token", type |-> type, override |-> override, env |-> env, shared |-> shared,
     at |-> "start",       \* the runner is about to build its client, runs, or is done
     client |-> "",        \* self.auth_token of the runner's client
     latest |-> "",        \* the token of the last set_shared_auth_token since the runner runs
     sent |-> [token |-> "", latest |-> ""]]   \* the last venue request: its token, and latest then

\* app.py 119-124 and runners.py 34-38
set_shared_auth_token(token) ==
    /\ calc.pc = "token"
    /\ calc' = [calc EXCEPT !.shared = token,
                            !.latest = IF calc.at = "run" THEN token ELSE @]
    /\ UNCHANGED <<tasks, starting, launched, rpc, exc, lastCall, startTrue, stopTrue,
                   logCalls, run, venue>>

\* runners.py 47-59 as the runners call it (82-85, 467, 734-737): run_sell_shares
\* passes no override; with no token at all ValueError is logged and the runner returns
get_client ==
    /\ calc.pc = "token"
    /\ calc.at = "start"
    /\ LET auth_token_override == IF calc.type = "sell_shares" THEN "" ELSE calc.override
           auth_token == IF auth_token_override # "" THEN auth_token_override
                         ELSE IF calc.shared # "" THEN calc.shared ELSE calc.env
       IN calc' = IF auth_token = ""
                  THEN [calc EXCEPT !.at = "done"]
                  ELSE [calc EXCEPT !.at = "run", !.client = auth_token]
    /\ UNCHANGED <<tasks, starting, launched, rpc, exc, lastCall, startTrue, stopTrue,
                   logCalls, run, venue>>

\* runners.py 978-981: each cycle of the monitoring loop of a split_and_sell step
update_auth_token ==
    /\ calc.pc = "token"
    /\ calc.at = "run"
    /\ calc.type = "split_and_sell"
    /\ calc.shared # ""
    /\ calc' = [calc EXCEPT !.client = calc.shared]
    /\ UNCHANGED <<tasks, starting, launched, rpc, exc, lastCall, startTrue, stopTrue,
                   logCalls, run, venue>>

\* opinion_client.py 52-62: a request of the runner's client carries the token
\* the client holds
venue_request ==
    /\ calc.pc = "token"
    /\ calc.at = "run"
    /\ calc' = [calc EXCEPT !.sent = [token |-> calc.client, latest |-> calc.latest]]
    /\ UNCHANGED <<tasks, starting, launched, rpc, exc, lastCall, startTrue, stopTrue,
                   logCalls, run, venue>>

\* the runner returns
token_runner_returns ==
    /\ calc.pc = "token"
    /\ calc.at = "run"
    /\ calc' = [calc EXCEPT !.at = "done"]
    /\ UNCHANGED <<tasks, starting, launched, rpc, exc, lastCall, startTrue, stopTrue,
                   logCalls, run, venue>>

InitToken ==
    /\ Constructed
    /\ \E type \in TaskTypes, override \in {"", "t0"}, env \in {"", "env"},
          shared \in {""} \cup AuthTokens :
          calc = TokenInit(type, override, env, shared)

SetSharedAuthToken == \E token \in AuthTokens : set_shared_auth_token(token)

NextToken ==
    \/ SetSharedAuthToken
    \/ get_client
    \/ update_auth_token
    \/ venue_request
    \/ token_runner_returns

SpecToken == InitToken /\ [][NextToken]_vars

\* C21: after set_shared_auth_token(t) returned, every venue request an
\* already running Task issues carries t, not the token it was started with.
C21_RunningTaskSendsLatestToken ==
    (calc.pc = "token" /\ calc.sent.latest # "") => calc.sent.token = calc.sent.latest

----------------------------------------------------------------------------
(* The amount codec of OpinionTradeClient (opinion_client.py 231-237).  A
   Decimal is its coefficient, a sequence of decimal digits, and its
   exponent; the decimal context is the default one: 28 significant digits,
   ROUND_HALF_EVEN. *)

\* getcontext().prec
PREC == 28

\* Decimal(10**18)
WEI_DECIMALS == 18

\* prices passed as floats, in units of 0.00001: str(price) has 5 decimals at most
FloatPrices == {0, 49, 50, 51, 149, 150, 151, 12340, 12350, 12351, 12449, 12450, 12451, 99950}

\* line 237: Decimal(str(price)).quantize(Decimal('0.001')), in thousandths;
\* the context rounds a tie to the even third decimal
round_price(price) ==
    LET q == price \div 100
        r == price % 100
    IN IF r > 50 \/ (r = 50 /\ q % 2 = 1) THEN q + 1 ELSE q

Dec(digits, exp) == [digits |-> digits, exp |-> exp]

Zeros(n) == [k \in 1..n |-> 0]

\* the digits without their leading zeros; <<0>> is zero
RECURSIVE Strip(_)
Strip(digits) ==
    IF Len(digits) <= 1 THEN (IF digits = <<>> THEN <<0>> ELSE digits)
    ELSE IF Head(digits) = 0 THEN Strip(Tail(digits)) ELSE digits

\* digits + 1
RECURSIVE Incr(_)
Incr(digits) ==
    IF digits = <<>> THEN <<1>>
    ELSE LET n == Len(digits) IN
         IF digits[n] < 9 THEN [digits EXCEPT ![n] = @ + 1]
         ELSE Append(Incr(SubSeq(digits, 1, n - 1)), 0)

\* the result of an operation is rounded to PREC significant digits, half even
RoundPrec(d) ==
    LET digits == Strip(d.digits)
        k == Len(digits) - PREC
    IN IF k <= 0 THEN Dec(digits, d.exp)
       ELSE LET kept == SubSeq(digits, 1, PREC)
                dropped == SubSeq(digits, PREC + 1, Len(digits))
                half == <<5>> \o Zeros(k - 1)
                above == \E j \in 1..k : /\ dropped[j] > half[j]
                                         /\ \A i \in 1..(j - 1) : dropped[i] = half[i]
                up == above \/ (dropped = half /\ kept[PREC] % 2 = 1)
                sum == IF up THEN Incr(kept) ELSE kept
            IN IF Len(sum) > PREC
               THEN Dec(SubSeq(sum, 1, PREC), d.exp + k + 1)
               ELSE Dec(sum, d.exp + k)

\* int(d): the digits before the decimal point
ToInt(d) ==
    IF d.exp >= 0 THEN Strip(d.digits \o Zeros(d.exp))
    ELSE IF -d.exp >= Len(d.digits) THEN <<0>>
    ELSE Strip(SubSeq(d.digits, 1, Len(d.digits) + d.exp))

\* an integer conversion that rounds up what int() cuts off
to_wei_rounds_up(amount) ==
    LET product == RoundPrec(Dec(amount.digits \o Zeros(WEI_DECIMALS), amount.exp))
        cut == IF product.exp >= 0 THEN <<>>
               ELSE IF Len(product.digits) + product.exp < 0 THEN product.digits
               ELSE SubSeq(product.digits, Len(product.digits) + product.exp + 1, Len(product.digits))
    IN IF \E j \in 1..Len(cut) : cut[j] # 0 THEN Strip(Incr(ToInt(product))) ELSE ToInt(product)

\* line 233: str(int(amount * Decimal(10**18)))
to_wei(amount) ==
    ToInt(RoundPrec(Dec(amount.digits \o Zeros(WEI_DECIMALS), amount.exp)))

\* a coefficient of len digits: lead, then fill, then last
CoefficientOf(len, lead, fill, last) ==
    [k \in 1..len |-> IF k = 1 THEN lead ELSE IF k = len THEN last ELSE fill]

\* the Decimals the callers pass: Decimal(str(float)) and the products and
\* quotients of such, none of more than PREC significant digits
Amounts ==
    {Dec(CoefficientOf(len, lead, fill, last), exp) :
        len \in {1, 2, 19, 20, PREC}, lead \in {1, 9}, fill \in {0, 9}, last \in {0, 5, 9},
        exp \in {-27, -20, -19, -18, -17, -3, 0}}

CodecInit(price, amount) ==
    [pc |-> "codec", price |-> price, amount |-> amount,
     rounded |-> -1, wei |-> <<>>]

\* _round_price(price)
codec_round_price ==
    /\ calc.pc = "codec"
    /\ calc.rounded = -1
    /\ calc' = [calc EXCEPT !.rounded = round_price(calc.price)]
    /\ UNCHANGED <<tasks, starting, launched, rpc, exc, lastCall, startTrue, stopTrue,
                   logCalls, run, venue>>

\* _to_wei(amount)
codec_to_wei ==
    /\ calc.pc = "codec"
    /\ calc.wei = <<>>
    /\ calc' = [calc EXCEPT !.wei = to_wei(calc.amount)]
    /\ UNCHANGED <<tasks, starting, launched, rpc, exc, lastCall, startTrue, stopTrue,
                   logCalls, run, venue>>

InitCodec ==
    /\ Constructed
    /\ \E price \in FloatPrices, amount \in Amounts : calc = CodecInit(price, amount)

NextCodec == codec_round_price \/ codec_to_wei

SpecCodec == InitCodec /\ [][NextCodec]_vars

\* C22: _round_price rounds to 3 decimals half up: for every non-negative price,
\* every exact tie at the 4th decimal included, the result is
\* floor(price * 1000 + 1/2) / 1000.
C22_RoundPriceHalfUp ==
    (calc.pc = "codec" /\ calc.rounded # -1) => calc.rounded = (calc.price + 50) \div 100

\* floor(x * 10^18) of the Decimal x, as digits
FloorOfProduct(x) ==
    LET shift == x.exp + WEI_DECIMALS
        n == Len(x.digits)
    IN IF shift >= 0 THEN Strip(x.digits \o Zeros(shift))
       ELSE IF n + shift <= 0 THEN <<0>>
       ELSE Strip([k \in 1..(n + shift) |-> x.digits[k]])

----------------------------------------------------------------------------
(* The amounts of the orders the strategies submit: place_order and
   place_sell_shares (opinion_client.py 300-475) as run_market_maker (164-180)
   and run_sell_shares (547-553) call them.  Book prices are in thousandths. *)

\* prices of the filtered best bid or ask the strategy read
BookPrices == {1, 2, 250, 500, 998, 999}

\* amount_usdt of the config and shares of a position: n * 10^exp
Quantities == {[n |-> 10, exp |-> -1], [n |-> 150, exp |-> -1], [n |-> 50000, exp |-> -1]}

RECURSIVE DigitsOf(_)
DigitsOf(n) == IF n < 10 THEN <<n>> ELSE Append(DigitsOf(n \div 10), n % 10)

\* the digits of num / den after the ones in quotient, until the division ends
\* or the quotient has PREC significant digits; then rounded half even
RECURSIVE LongDivision(_, _, _, _)
LongDivision(quotient, exp, rem, den) ==
    IF rem = 0 THEN Dec(quotient, exp)
    ELSE IF Len(Strip(quotient)) >= PREC /\ Strip(quotient) # <<0>>
    THEN IF 2 * rem > den \/ (2 * rem = den /\ quotient[Len(quotient)] % 2 = 1)
         THEN RoundPrec(Dec(Incr(quotient), exp))
         ELSE Dec(quotient, exp)
    ELSE LongDivision(Append(quotient, (10 * rem) \div den), exp - 1, (10 * rem) % den, den)

\* Decimal a / Decimal b, b not zero
DecDiv(a, b) == LongDivision(DigitsOf(a.n \div b.n), a.exp - b.exp, a.n % b.n, b.n)

\* Decimal a * Decimal b
DecMul(a, b) == RoundPrec(Dec(DigitsOf(a.n * b.n), a.exp + b.exp))

NoRequest == [makerAmount |-> <<>>, takerAmount |-> <<>>]

\* opinion_client.py 323-391: a BUY; a price that rounds to 0.000 raises
\* DivisionByZero before anything is sent
place_order_buy(price, amount_usdt) ==
    LET price_decimal == [n |-> round_price(100 * price), exp |-> -3]
    IN IF price_decimal.n = 0 THEN NoRequest
       ELSE [makerAmount |-> to_wei(Dec(DigitsOf(amount_usdt.n), amount_usdt.exp)),
             takerAmount |-> to_wei(DecDiv(amount_usdt, price_decimal))]

\* opinion_client.py 412-475
place_sell_shares(price, shares) ==
    LET price_decimal == [n |-> round_price(100 * price), exp |-> -3]
    IN [makerAmount |-> to_wei(Dec(DigitsOf(shares.n), shares.exp)),
        takerAmount |-> to_wei(DecMul(shares, price_decimal))]

\* the order book an order is priced from: its filtered best bid and best ask
\* (NoPrice without a qualifying level), the bids below the asks
Books ==
    {book \in [bid : BookPrices \cup {NoPrice}, ask : BookPrices \cup {NoPrice}] :
        book.bid = NoPrice \/ book.ask = NoPrice \/ book.bid < book.ask}

OrderInit(mode, book, quantity) ==
    [pc |-> "order", mode |-> mode, bid |-> book.bid, ask |-> book.ask, quantity |-> quantity,
     priced |-> {},                                               \* the orders priced so far
     price |-> [buy |-> NoPrice, sell |-> NoPrice, mirror |-> NoPrice],
     buy |-> NoRequest, sell |-> NoRequest, mirror |-> NoRequest]

\* runners.py 156-180: run_market_maker places its BUY at the best bid, one
\* tick higher in spread mode
order_buy ==
    /\ calc.pc = "order"
    /\ "buy" \notin calc.priced
    /\ calc.bid # NoPrice
    /\ LET yes_buy_price == IF calc.mode = "spread" THEN calc.bid + TICK ELSE calc.bid
       IN calc' = [calc EXCEPT !.priced = @ \cup {"buy"},
                               !.price.buy = yes_buy_price,
                               !.buy = place_order_buy(yes_buy_price, calc.quantity)]
    /\ UNCHANGED <<tasks, starting, launched, rpc, exc, lastCall, startTrue, stopTrue,
                   logCalls, run, venue>>

\* runners.py 543-553 and 900-906: run_sell_shares and place_and_monitor_step
\* place their SELL at the best ask, one tick lower in spread mode
order_sell ==
    /\ calc.pc = "order"
    /\ "sell" \notin calc.priced
    /\ calc.ask # NoPrice
    /\ LET sell_price == IF calc.mode = "spread" THEN calc.ask - TICK ELSE calc.ask
       IN calc' = [calc EXCEPT !.priced = @ \cup {"sell"},
                               !.price.sell = sell_price,
                               !.sell = place_sell_shares(sell_price, calc.quantity)]
    /\ UNCHANGED <<tasks, starting, launched, rpc, exc, lastCall, startTrue, stopTrue,
                   logCalls, run, venue>>

\* runners.py 283-298: run_market_maker places the SELL that mirrors a filled BUY
order_mirror ==
    /\ calc.pc = "order"
    /\ "mirror" \notin calc.priced
    /\ calc.ask # NoPrice
    /\ LET spread_price == calc.ask - TICK
           sell_price ==
               IF calc.mode = "spread"
               THEN IF calc.bid # NoPrice /\ spread_price <= calc.bid
                    THEN calc.ask ELSE spread_price
               ELSE calc.ask
       IN /\ calc.quantity.n * sell_price >= MIN_NOTIONAL * 10^(-calc.quantity.exp)
          /\ calc' = [calc EXCEPT !.priced = @ \cup {"mirror"},
                                  !.price.mirror = sell_price,
                                  !.mirror = place_sell_shares(sell_price, calc.quantity)]
    /\ UNCHANGED <<tasks, starting, launched, rpc, exc, lastCall, startTrue, stopTrue,
                   logCalls, run, venue>>

InitOrder ==
    /\ Constructed
    /\ \E mode \in {"standard", "spread"}, book \in Books, quantity \in Quantities :
          calc = OrderInit(mode, book, quantity)

NextOrder == order_buy \/ order_sell \/ order_mirror

SpecOrder == InitOrder /\ [][NextOrder]_vars

\* C24: every order a strategy submits through place_order or place_sell_shares
\* carries makerAmount > 0 and takerAmount > 0 in base units.
C24_SubmittedAmountsPositive ==
    calc.pc = "order" =>
        \A request \in {calc.buy, calc.sell, calc.mirror} :
            request # NoRequest => (request.makerAmount # <<0>> /\ request.takerAmount # <<0>>)

----------------------------------------------------------------------------
(* Claims about one Leg in a cycle of the reconciliation loops, checked     *)
(* under SpecRun                                                            *)

\* C25: a Leg whose order id was absent at the poll and is listed again by a
\* confirmation query is skipped for the rest of that cycle, in every strategy:
\* it stays tracked with the same order id, tracking number, price and quantity,
\* and no cancel or place call is issued while it is the Leg under examination.
C25_ReappearedLegSkipped ==
    [][\A key \in run.again \cap run'.again :
          /\ key \in DOMAIN run.orders
          /\ key \in DOMAIN run'.orders
          /\ run'.orders[key] = run.orders[key]
          /\ (run.keys # <<>> /\ Head(run.keys) = key) =>
                VenueWrites(venue') = VenueWrites(venue)]_vars

\* the step re-places the Leg under examination: the placement of a reprice succeeded
Replaced ==
    /\ rpc[RunId] = "run"
    /\ run.pc \in {"mm_replace", "ss_replace", "sp_replace"}
    /\ Head(run.keys) \in DOMAIN run'.orders
    /\ Len(venue'.orders) = Len(venue.orders) + 1

\* C26: after a successful reprice, in every strategy, the Leg's price is the
\* filtered best price observed in that cycle (best bid for a BUY Leg, best ask
\* for a SELL Leg), and its order id and tracking number are those the new
\* placement returned.
C26_RepricedAtFilteredBest ==
    [][Replaced =>
          LET order == run'.orders[Head(run.keys)] IN
          /\ order.price = run.best
          /\ order.order_id = Len(venue'.orders)
          /\ order.trans_no = TransNo(Len(venue'.orders))]_vars

\* the step is the re-placement call of a reprice, and the call fails
ReplaceFails ==
    /\ rpc[RunId] = "run"
    /\ \/ run.pc = "sp_replace"
       \/ /\ run.pc \in {"mm_replace", "ss_replace"}
          /\ NotionalOk(run.orders[Head(run.keys)].shares, run.new_price)
    /\ run' # run
    /\ Len(venue'.orders) = Len(venue.orders)

\* C27: if the re-placement call of a reprice fails, the Leg is removed from
\* tracking in that cycle, in market_maker, sell_shares and split_and_sell alike.
C27_FailedReplaceDropsLeg ==
    [][ReplaceFails => Head(run.keys) \notin DOMAIN run'.orders]_vars

\* the step is the re-placement of a reprice, and the Leg's quantity at the new
\* price is worth less than 1 currency unit
ReplaceBelowNotional ==
    /\ rpc[RunId] = "run"
    /\ run.pc \in {"mm_replace", "ss_replace", "sp_replace"}
    /\ run' # run
    /\ ~NotionalOk(run.orders[Head(run.keys)].shares, run.new_price)

\* C28: during a reprice, in every strategy, if the remaining quantity times the
\* new price is below 1 currency unit, no new order is placed and the Leg is
\* removed from tracking.
C28_NoReplaceBelowNotional ==
    [][ReplaceBelowNotional =>
          /\ Len(venue'.orders) = Len(venue.orders)
          /\ Head(run.keys) \notin DOMAIN run'.orders]_vars

\* the step handles a confirmed fill of a market-maker BUY Leg
BuyFillHandled == rpc[RunId] = "run" /\ run.pc = "mm_fill_buy" /\ run' # run

\* C29: when a market-maker BUY Leg is confirmed filled, the BUY Leg is removed in
\* that cycle and at most one SELL is placed for its side; a SELL is placed only
\* when a filtered best ask exists and shares times sell price is at least 1, at
\* the best ask (one tick lower in spread mode); and a SELL Leg for the side is
\* tracked afterwards exactly when the placement succeeded.
C29_BuyFillPlacesMirroredSell ==
    [][BuyFillHandled =>
          LET key      == Head(run.keys)
              sell_key == MMSide(key) \o "_sell"
              placed   == Len(venue'.orders) # Len(venue.orders)
          IN /\ key \notin DOMAIN run'.orders
             /\ Len(venue'.orders) <= Len(venue.orders) + 1
             /\ (sell_key \in DOMAIN run'.orders) <=> placed
             /\ placed =>
                   LET leg == run'.orders[sell_key] IN
                   /\ run'.best # NoPrice
                   /\ leg.price = IF tasks[RunId].config.mode = "spread"
                                  THEN run'.best - TICK ELSE run'.best
                   /\ NotionalOk(leg.shares, leg.price)
                   /\ leg.type = "sell"
                   /\ leg.order_id = Len(venue'.orders)]_vars

\* place_and_monitor_step returns True, 0, 0: the step is reported complete and
\* its quantities are deducted in full
StepReportedComplete ==
    /\ rpc[RunId] = "run"
    /\ run.pc = "sp_loop"
    /\ run'.pc \in {"sp_step", "done"}

\* C30: a split-and-sell step is reported complete, and its quantities are
\* deducted from the remaining balances, only if a SELL Leg was placed for each
\* side whose step quantity is at least 0.01 and every such Leg was confirmed
\* filled.
C30_CompleteOnlyWhenEverySideFilled ==
    [][StepReportedComplete =>
          \A side \in {"yes", "no"} : run.to_sell[side] >= 1 => side \in run.filled]_vars

----------------------------------------------------------------------------
(* The client's get_best_price against the strategies' helpers *)

\* C33: for any order book and any ordering of its levels, get_best_price
\* returns the highest bid price (side "bid") or the lowest ask price (side
\* "ask") among the levels whose price * quantity reaches min_volume, and None
\* when no level qualifies: the same answer as get_best_bid and get_best_ask.
C33_BestPriceIsBestOfQualifying ==
    LET q == Qualifying(calc.levels, calc.min_volume)
        book == [bids |-> calc.levels, asks |-> calc.levels]
        bid == get_best_bid(book, calc.min_volume)
        ask == get_best_ask(book, calc.min_volume)
    IN calc.pc = "book" =>
        /\ "bid" \in calc.price_done =>
              /\ (calc.best_price.bid = NoPrice) <=> (q = {})
              /\ \A l \in q : l[1] <= calc.best_price.bid
              /\ calc.best_price.bid = IF bid = NoLevel THEN NoPrice ELSE bid[1]
        /\ "ask" \in calc.price_done =>
              /\ (calc.best_price.ask = NoPrice) <=> (q = {})
              /\ \A l \in q : l[1] >= calc.best_price.ask
              /\ calc.best_price.ask = IF ask = NoLevel THEN NoPrice ELSE ask[1]

----------------------------------------------------------------------------
(* The credential override of a Task's config, checked under SpecToken *)

\* C40: a Task started with a credential override in its config (market_maker,
\* split_and_sell) sends every venue request of its lifetime with that override,
\* whatever the shared token holds or is later set to.
C40_OverrideUsedForEveryRequest ==
    (/\ calc.pc = "token"
     /\ calc.type \in {"market_maker", "split_and_sell"}
     /\ calc.override # ""
     /\ calc.sent.token # "") => calc.sent.token = calc.override

----------------------------------------------------------------------------
(* Claims about run_split_and_sell before its first step, checked under SpecRun *)

\* C32: after a successful split the positions are polled at most 12 times, and
\* a SELL order is placed only after a poll that showed both the YES and the NO
\* balance, followed by the settlement delay; if the split fails no order is
\* placed at all.
C32_SellOnlyAfterBothBalancesSettled ==
    (RunId \in DOMAIN tasks /\ tasks[RunId].type = "split_and_sell") =>
        /\ run.pc = "sp_wait" => run.i <= WAIT_ATTEMPTS
        /\ venue.orders # <<>> => run.settled

\* C31: at the end of a split-and-sell run the reported totals (shares sold and
\* notional received per side, hence profit/loss against the initial collateral)
\* are the sums over all Legs confirmed filled during the run, each at the price
\* it rested at when confirmed, Legs filled in an interrupted step included.
C31_ReportedTotalsAreConfirmedFills ==
    run.stats.reported => run.stats.total = run.stats.confirmed

----------------------------------------------------------------------------
(* Claims about the orders a strategy leaves on the venue, checked under SpecRun *)

\* the while test of a monitoring loop, or the strategy has returned or raised
AtCycleBoundary == run.pc \in {"mm_loop", "ss_loop", "sp_loop", "done"}

\* C34: at every cycle boundary and at strategy exit, each order the Task placed
\* that is still resting on the venue is the current order of a tracked Leg,
\* whatever combination of cancel and re-place calls succeeded or failed.
C34_RestingOrdersAreTracked ==
    AtCycleBoundary => OpenIds(venue) \subseteq LegIds(run.orders, DOMAIN run.orders)

\* C35: a Leg is reported as filled (logged, counted in the step statistics or
\* converted into a mirrored SELL) only if its current venue order was matched
\* by the venue; an order the strategy itself cancelled during a reprice is never
\* reported as filled.
C35_ReportedFillWasMatched ==
    FillConfirmed => venue.orders[run.orders[Head(run.keys)].order_id] = "filled"

----------------------------------------------------------------------------
(* Claims about the price of an order against the book it is priced from, *)
(* checked under SpecOrder                                                 *)

\* C36: in spread mode no order is priced across the book it was priced from:
\* every BUY price is strictly below the filtered best ask of that book and
\* every SELL price strictly above its filtered best bid.
C36_SpreadPriceInsideBook ==
    (calc.pc = "order" /\ calc.mode = "spread") =>
        /\ ("buy" \in calc.priced /\ calc.ask # NoPrice) => calc.price.buy < calc.ask
        /\ \A order \in calc.priced \cap {"sell", "mirror"} :
              calc.bid # NoPrice => calc.price[order] > calc.bid

----------------------------------------------------------------------------
(* Claims about the Legs of run_market_maker, checked under SpecRun *)

\* C37: the notional (price times quantity) of every BUY order the market maker
\* placed for a side, the initial order and every re-placement, is at most the
\* configured amount per side.
C37_BuyNotionalWithinAmount ==
    (RunId \in DOMAIN tasks /\ tasks[RunId].type = "market_maker") =>
        \A key \in DOMAIN run.orders :
            LET order == run.orders[key] IN
            order.type = "buy" =>
                order.shares.n * order.price <= tasks[RunId].config.amount * order.shares.d

\* C38: a SELL reprice never raises a Leg's resting price: after a successful
\* reprice of a SELL Leg, in any strategy, the new price is strictly lower than
\* the previous one.
C38_SellRepriceLowersPrice ==
    [][(Replaced /\ run.orders[Head(run.keys)].type = "sell") =>
          run'.orders[Head(run.keys)].price < run.orders[Head(run.keys)].price]_vars

\* the step places an order for a Leg of the given outcome side
PlacesOn(side) ==
    /\ Len(venue'.orders) = Len(venue.orders) + 1
    /\ \E key \in DOMAIN run'.orders :
          /\ key \in {side \o "_buy", side \o "_sell"}
          /\ run'.orders[key].order_id = Len(venue'.orders)

\* C39: at every cycle boundary the market maker tracks at most one Leg per
\* outcome side (never a side's BUY Leg and SELL Leg together), so at most two
\* Legs in total; and with single_order_side set every order it places is for
\* that side.
C39_OneLegPerSide ==
    /\ [](( /\ RunId \in DOMAIN tasks
            /\ tasks[RunId].type = "market_maker"
            /\ run.pc \in {"mm_loop", "done"} ) =>
              /\ \A side \in {"yes", "no"} :
                    ~({side \o "_buy", side \o "_sell"} \subseteq DOMAIN run.orders)
              /\ Cardinality(DOMAIN run.orders) <= 2)
    /\ [][( /\ RunId \in DOMAIN tasks
            /\ tasks[RunId].type = "market_maker"
            /\ tasks[RunId].config.single_order_side \in {"yes", "no"}
            /\ Len(venue'.orders) # Len(venue.orders) ) =>
              PlacesOn(tasks[RunId].config.single_order_side)]_vars

\* with single_order_side "yes" the BUY was filled and its mirrored SELL is the
\* only Leg at the while test
C39_Witness ==
    /\ RunId \in DOMAIN tasks
    /\ tasks[RunId].type = "market_maker"
    /\ tasks[RunId].config.single_order_side = "yes"
    /\ run.pc = "mm_loop"
    /\ DOMAIN run.orders = {"yes_sell"}
    /\ Len(venue.orders) = 2

=============================================================================
